---- MODULE Spec2Model ----
(***************************************************************************)
(* A model of the bridging engine of matrix-bridge-discord: the Discord    *)
(* gateway callbacks (src/src/discord.rs), the Matrix transaction          *)
(* dispatcher (src/src/matrix.rs, src/src/matrix/event_handler.rs), the    *)
(* bridge core (src/src/bridge.rs), the stores (src/src/db) and the admin  *)
(* HTTP surface (src/src/web/handlers/provisioning.rs).                    *)
(*                                                                         *)
(* Strings that the code builds with format! are sequences of tokens, so   *)
(* that a formatted id differs from the raw id it was built from.          *)
(* Option<T> is a sequence of length 0 (None) or 1 (Some).                 *)
(***************************************************************************)
EXTENDS Integers, Sequences, FiniteSets, TLC

\* ------------------------------------------------------------------ bounds

MaxSends == 2          \* Matrix events the homeserver hands out ids for
MaxDiscordSends == 2   \* entries kept in the Discord send log
MaxRoomRows == 2       \* room_mappings rows ever inserted (AUTOINCREMENT ids)
MaxManagers == 2       \* DatabaseManager values opened on the database file
MaxBulkLen == 3        \* ids in one MESSAGE_DELETE_BULK, all orders and repetitions
MaxTxnLen == 2         \* events in one transaction of the homeserver
MaxRetries == 10       \* failed logins DiscordClient::start sleeps after
NowBase == 5000000     \* a wall-clock reading, in ms

\* ------------------------------------------------------- program constants

AGE_LIMIT_MS == 900000
REQUIRED_POWER_LEVEL == 50
INITIAL_LOGIN_RETRY_SECONDS == 2
MAX_LOGIN_RETRY_SECONDS == 300
RoomCountLimit == -1      \* LimitsConfig::default room_count

\* --------------------------------------------------------------- universes

None == <<>>
Some(x) == <<x>>
IsSome(o) == Len(o) = 1
Unwrap(o) == o[1]

Channels == {"c1", "c2"}
Rooms == {"r1", "r2"}
DiscordUsers == {<<"u1">>, <<"u2">>}
DiscordMsgIds == {"m1", "m2"}
Domain == "example.org"
GhostPrefix == "_discord_"
ForeignWebhook == "w_other"
WebhookOf(channel) == IF channel = "c1" THEN "w_c1" ELSE "w_c2"
EventIdSeq == <<"$e1", "$e2", "$e3", "$e4">>
DiscordReturnedSeq == <<"d1", "d2", "d3", "d4">>

Text == <<"hi">>

\* The ghost MXID the bridge derives for a Discord user (create_ghost_user).
GhostUserId(discord_user_id) ==
    <<"@", GhostPrefix>> \o discord_user_id \o <<":", Domain>>

\* bot_user_id(): "@_discord_:<domain>"
BotUserId == <<"@", GhostPrefix, ":", Domain>>

\* ------------------------------------------------------------------- state

VARIABLES
    room_mappings,      \* rows of room_mappings: [id, matrix_room_id, discord_channel_id]
    next_room_row,      \* next AUTOINCREMENT id of room_mappings
    message_mappings,   \* rows of message_mappings: [discord_message_id, matrix_room_id, matrix_event_id]
    processed_events,   \* rows of processed_events: [source, event_id]
    our_webhook_ids,    \* DiscordClient.our_webhook_ids
    webhook_cache,      \* DiscordClient.webhook_cache: channel -> Option webhook id
    is_logged_in,       \* DiscordLoginState.is_logged_in
    http,               \* DiscordClient.http is Some
    send_lock,          \* DiscordClient.send_lock is held
    ghosts,             \* Matrix ghost users: discord user -> Option display name
    matrix_sent,        \* calls of MatrixAppservice::send_message_with_metadata that succeeded
    notices,            \* calls of MatrixAppservice::send_notice made by the last step
    redactions,         \* calls of MatrixAppservice::redact_message
    discord_sent,       \* Discord sends that returned
    approvals,          \* ProvisioningCoordinator: channel -> [status, requestor]
    flows,              \* in-flight request_bridge_matrix_room calls
    rel,                \* an application of apply_message_relation_mappings
    room_count,         \* config.limits.room_count
    admin,              \* in-flight create_bridge requests of the admin HTTP surface
    upserts,            \* in-flight MessageStore::upsert_message_mapping calls
    managers,           \* DatabaseManager values opened on the database file so far
    in_flight,          \* outbound send calls that have not returned
    creating,           \* message callbacks of the gateway that wait for the homeserver
    txn,                \* the transaction on_transaction is working through
    lifecycle,          \* DiscordClient::start and the shutdown of main
    presence_queue,     \* PresenceHandler: the DiscordPresence entries waiting to be sent
    disable_typing_notifications,   \* config.bridge.disable_typing_notifications
    disable_deletion_forwarding,    \* config.bridge.disable_deletion_forwarding
    webhooks,           \* get_or_create_webhook calls in flight, and the webhooks Discord holds
    wire,               \* an outbound, the m.room.message content rendered from it, its parse
    handled_ok,         \* history: (source, event_id) of events handled without error
    inbound,            \* history: the event the last step dispatched
    outcome             \* history: what the last step's handler did

stores == <<room_mappings, next_room_row, message_mappings, processed_events>>
discord_client == <<our_webhook_ids, webhook_cache, is_logged_in, http, send_lock>>
matrix_side == <<ghosts, matrix_sent, redactions>>
provisioning == <<approvals, flows>>
history == <<handled_ok, inbound, outcome>>
\* What the gateway callbacks and the transaction dispatcher never write.
\* Calls in flight that the specifications of concurrency interleave.
in_progress == <<upserts, managers, in_flight, creating>>
\* The process around the handlers.
\* What the callbacks for presence and typing work with.
gateway_extras == <<presence_queue, disable_typing_notifications, wire,
                    disable_deletion_forwarding, webhooks>>
extras == <<lifecycle, gateway_extras>>
workers == <<in_progress, extras>>
aside == <<rel, room_count, admin, workers, txn>>
vars == <<stores, discord_client, matrix_side, notices, discord_sent, provisioning, aside,
          history>>

NoInbound ==
    [source |-> "none", kind |-> "none", event_id |-> None, place |-> "",
     sender |-> <<>>, bot |-> FALSE, webhook_id |-> None, content |-> <<>>,
     reply_to |-> None, edit_of |-> None, ts |-> None, now |-> 0,
     power_levels |-> None]

NoOutcome ==
    [handler |-> "none", result |-> "none", sent |-> None, source_id |-> None,
     mark |-> "none", answer |-> "none", reply |-> None, calls |-> <<>>,
     typing |-> None, presence |-> None]

FlowIds == {1, 2}
IdleFlow == [pc |-> "idle", room |-> "", requestor |-> <<>>, guild |-> "",
             channel |-> "", answer |-> "none"]
NoRel == [outbound |-> [body |-> <<>>, reply_to |-> None, edit_of |-> None,
                        attachments |-> <<>>],
          reply_mapping |-> None, edit_mapping |-> None,
          result |-> [body |-> <<>>, reply_to |-> None, edit_of |-> None,
                      attachments |-> <<>>],
          applied |-> FALSE]

\* The bridge as BridgeCore::new and DiscordClient::new leave it.
Constructed ==
    /\ room_mappings = {}
    /\ next_room_row = 1
    /\ message_mappings = {}
    /\ processed_events = {}
    /\ our_webhook_ids = {}
    /\ webhook_cache = [c \in Channels |-> None]
    /\ is_logged_in = FALSE
    /\ http = FALSE
    /\ send_lock = FALSE
    /\ ghosts = [u \in DiscordUsers |-> None]
    /\ matrix_sent = <<>>
    /\ notices = <<>>
    /\ redactions = <<>>
    /\ discord_sent = <<>>
    /\ approvals = [c \in Channels |-> [status |-> "Idle", requestor |-> <<>>]]
    /\ flows = [f \in FlowIds |-> IdleFlow]
    /\ handled_ok = {}
    /\ inbound = NoInbound
    /\ outcome = NoOutcome

AdminIds == {1, 2}
IdleAdmin == [pc |-> "idle", room |-> "", channel |-> ""]

UpsertIds == {1, 2}
IdleUpsert == [pc |-> "idle", mapping |-> <<>>, existing |-> <<>>]

SendTasks == {1, 2}
IdleSend == [side |-> "none", pc |-> "idle"]

CreateTasks == {1, 2}
IdleCreate == [pc |-> "idle", id |-> "", sender |-> <<>>, room |-> ""]

\* DiscordClient::start at its entry: retry_seconds is INITIAL_LOGIN_RETRY_SECONDS
\* and nothing has been slept.
Starting == [pc |-> "starting", retry_seconds |-> INITIAL_LOGIN_RETRY_SECONDS,
             retries |-> 0, slept |-> 0]

NoTxn == [events |-> <<>>, pos |-> 0, results |-> <<>>, returned |-> "none"]

\* The serde defaults of BridgeConfig.
ConfigDefaults ==
    /\ disable_typing_notifications = FALSE
    /\ disable_deletion_forwarding = FALSE

NoWire == [pc |-> "none", outbound |-> NoRel.outbound, content |-> None, parsed |-> None]

NothingRendered == wire = NoWire

WebhookTasks == {1, 2}
IdleWebhookCall == [pc |-> "idle", channel |-> ""]

\* No send through a webhook in flight, and no webhook of the configured name
\* in any channel.
NoWebhooks ==
    [calls |-> [t \in WebhookTasks |-> IdleWebhookCall],
     remote |-> [c \in Channels |-> [created |-> 0, token |-> "none"]]]

\* No call in flight.
WorkersIdle ==
    /\ upserts = [u \in UpsertIds |-> IdleUpsert]
    /\ managers = 1
    /\ in_flight = [t \in SendTasks |-> IdleSend]
    /\ creating = [t \in CreateTasks |-> IdleCreate]
    /\ txn = NoTxn
    /\ lifecycle = Starting
    /\ presence_queue = <<>>
    /\ webhooks = NoWebhooks

\* What the specifications below do not draw from a set of their own.
Defaults ==
    /\ rel = NoRel
    /\ room_count = RoomCountLimit
    /\ admin = [a \in AdminIds |-> IdleAdmin]
    /\ WorkersIdle
    /\ ConfigDefaults
    /\ NothingRendered

Init == Constructed /\ Defaults

\* ------------------------------------------------------------------ stores

\* RoomStore::get_room_by_discord_channel
GetRoomByDiscordChannel(channel) ==
    LET hit == {m \in room_mappings : m.discord_channel_id = channel}
    IN IF hit = {} THEN None ELSE Some(CHOOSE m \in hit : TRUE)

\* get_room_by_matrix_room, as a query without its WHERE clause would do it.
GetRoomByMatrixRoomAnyRoom(room) ==
    IF room_mappings = {} THEN None ELSE Some(CHOOSE m \in room_mappings : TRUE)

\* RoomStore::get_room_by_matrix_room
GetRoomByMatrixRoom(room) ==
    LET hit == {m \in room_mappings : m.matrix_room_id = room}
    IN IF hit = {} THEN None ELSE Some(CHOOSE m \in hit : TRUE)

\* MessageStore::get_by_discord_message_id
GetByDiscordMessageId(id) ==
    LET hit == {m \in message_mappings : m.discord_message_id = id}
    IN IF hit = {} THEN None ELSE Some(CHOOSE m \in hit : TRUE)

\* upsert_message_mapping, as a store that always inserts would do it.
UpsertMessageMappingInsertOnly(rows, m) == rows \cup {m}

\* MessageStore::upsert_message_mapping: update the row of that
\* discord_message_id if there is one, insert otherwise.
UpsertMessageMapping(rows, m) ==
    IF \E x \in rows : x.discord_message_id = m.discord_message_id
    THEN {IF x.discord_message_id = m.discord_message_id
          THEN [x EXCEPT !.matrix_room_id = m.matrix_room_id,
                         !.matrix_event_id = m.matrix_event_id]
          ELSE x : x \in rows}
    ELSE rows \cup {m}

\* MessageStore::delete_by_discord_message_id
DeleteByDiscordMessageId(rows, id) ==
    {x \in rows : x.discord_message_id # id}

\* The constraints of room_mappings, as a schema without UNIQUE on
\* matrix_room_id would have them.
RoomInsertConflictsChannelOnly(room, channel) ==
    \E m \in room_mappings : m.discord_channel_id = channel

\* The UNIQUE constraints of room_mappings: an insert that repeats a
\* matrix_room_id or a discord_channel_id fails.
RoomInsertConflicts(room, channel) ==
    \E m \in room_mappings :
        m.matrix_room_id = room \/ m.discord_channel_id = channel

\* delete_room_mapping, as a DELETE without its filter on id would do it.
DeleteRoomMappingAll(rows, id) == {}

\* RoomStore::delete_room_mapping
DeleteRoomMapping(rows, id) == {m \in rows : m.id # id}

\* ----------------------------------------------------------- message flow

\* MessageFlow::discord_to_matrix: the caller looks outbound.reply_to and
\* outbound.edit_of up as Discord message ids, so they are the inbound ones.
DiscordToMatrix(m) ==
    [body |-> m.content, reply_to |-> m.reply_to, edit_of |-> m.edit_of,
     attachments |-> m.attachments]

\* OutboundMatrixMessage::render_body
RenderBody(outbound) == outbound.body

\* apply_message_relation_mappings, as a buggy variant would do it: the edit
\* link lands in reply_to.
ApplyMessageRelationMappingsSwapped(outbound, reply_mapping, edit_mapping) ==
    LET a == IF IsSome(reply_mapping)
             THEN [outbound EXCEPT !.reply_to = Some(Unwrap(reply_mapping).matrix_event_id)]
             ELSE outbound
    IN IF IsSome(edit_mapping)
       THEN [a EXCEPT !.reply_to = Some(Unwrap(edit_mapping).matrix_event_id)]
       ELSE a

\* apply_message_relation_mappings
ApplyMessageRelationMappings(outbound, reply_mapping, edit_mapping) ==
    LET a == IF IsSome(reply_mapping)
             THEN [outbound EXCEPT !.reply_to = Some(Unwrap(reply_mapping).matrix_event_id)]
             ELSE outbound
    IN IF IsSome(edit_mapping)
       THEN [a EXCEPT !.edit_of = Some(Unwrap(edit_mapping).matrix_event_id)]
       ELSE a

\* build_discord_delete_redaction_request
BuildDiscordDeleteRedactionRequest(link) ==
    [room_id |-> link.matrix_room_id, event_id |-> link.matrix_event_id,
     reason |-> "Deleted on Discord"]

\* ------------------------------------------------------------ matrix side

\* MatrixAppservice::send_message_with_metadata: the wire content of the
\* m.room.message event built from the call's arguments.
MatrixWireContent(body, reply_to, edit_of) ==
    LET base == [msgtype |-> "m.text", body |-> body,
                 relates_to |-> None, new_content |-> None]
        a == IF IsSome(reply_to)
             THEN [base EXCEPT !.relates_to =
                      Some([rel_type |-> "m.in_reply_to", event_id |-> Unwrap(reply_to)])]
             ELSE base
    IN IF IsSome(edit_of)
       THEN [a EXCEPT !.new_content = Some([msgtype |-> "m.text", body |-> body]),
                      !.relates_to =
                          Some([rel_type |-> "m.replace", event_id |-> Unwrap(edit_of)]),
                      !.body = <<"* ">> \o body]
       ELSE a

\* The record of one successful send_message_with_metadata call: the user
\* impersonated, the room, the arguments, and the event id returned.
MatrixSendRecord(room_id, sender, body, reply_to, edit_of) ==
    [room_id |-> room_id, sender |-> sender, body |-> body,
     reply_to |-> reply_to, edit_of |-> edit_of,
     event_id |-> EventIdSeq[Len(matrix_sent) + 1]]

\* MatrixAppservice::ensure_ghost_user_registered -> create_ghost_user:
\* the display name is set on every call.
EnsureGhostUserRegistered(g, discord_user_id, username) ==
    LET display == IF IsSome(username) THEN Unwrap(username) ELSE discord_user_id
    IN [g EXCEPT ![discord_user_id] = Some(display)]

\* DiscordClient::get_user: always Some, username "user_<id>"
GetUser(user_id) ==
    [id |-> user_id, username |-> <<"user_">> \o user_id, discriminator |-> "0001"]

\* ------------------------------------------------- provisioning coordinator

\* ProvisioningCoordinator::mark_approval: Applied when the channel's request
\* is Pending, and then Approved or Declined; Expired otherwise.
MarkApprovalStatus(channel) ==
    IF approvals[channel].status = "Pending" THEN "Applied" ELSE "Expired"

\* mark_approval, as a buggy variant would do it: the answer is applied
\* whatever the state of the request.
MarkApprovalStateLate(channel, allow) ==
    [approvals EXCEPT ![channel].status = IF allow THEN "Approved" ELSE "Declined"]

MarkApprovalState(channel, allow) ==
    IF approvals[channel].status = "Pending"
    THEN [approvals EXCEPT ![channel].status =
             IF allow THEN "Approved" ELSE "Declined"]
    ELSE approvals

\* The future of ask_bridge_permission resolves when the request leaves
\* Pending: the waiting caller receives the answer.
ResolveWaiters(channel, answer) ==
    [f \in FlowIds |->
        IF flows[f].pc = "waiting" /\ flows[f].channel = channel
           /\ flows[f].answer = "none"
        THEN [flows[f] EXCEPT !.answer = answer]
        ELSE flows[f]]

MarkApprovalFlows(channel, allow) ==
    IF approvals[channel].status = "Pending"
    THEN ResolveWaiters(channel, IF allow THEN "Approved" ELSE "Declined")
    ELSE flows

\* ------------------------------------------------------------ discord side

\* DiscordClient::send_message: takes send_lock, and so never returns while
\* the lock is held; it hands nothing to Discord.
DiscordSendMessageResult == IF send_lock THEN "blocked" ELSE "ok"

DiscordSendMessageReply(content) == IF send_lock THEN None ELSE Some(content)

\* DiscordCommandHandler::is_command
DiscordIsCommand(content) == Len(content) > 0 /\ content[1] = "!matrix"

\* DiscordCommandHandler::handle
DiscordCommandOutcome(content, is_bridged, permissions) ==
    IF Len(content) < 2 THEN "Ignored"
    ELSE CASE content[2] = "approve" -> "ApproveRequested"
           [] content[2] = "deny" -> "DenyRequested"
           [] content[2] = "unbridge" ->
                IF "MANAGE_CHANNELS" \in permissions
                THEN "UnbridgeRequested" ELSE "Reply"
           [] OTHER -> "Reply"

ApprovedText == <<"Thanks for your response! The matrix bridge has been approved.">>
DeclinedText == <<"Thanks for your response! The matrix bridge has been declined.">>
LateText == <<"Thanks for your response, however it has arrived after the deadline - sorry!">>

\* BridgeCore::handle_discord_command_outcome
HandleDiscordCommandOutcome(cmd, ctx, room_mapping) ==
    /\ UNCHANGED <<message_mappings, ghosts, matrix_sent, redactions>>
    /\ CASE cmd = "Ignored" ->
              /\ UNCHANGED <<room_mappings, discord_sent, approvals, flows>>
              /\ outcome' = [NoOutcome EXCEPT !.handler = "handle_discord_message_with_context",
                                              !.result = "ok"]
         [] cmd = "Reply" ->
              /\ UNCHANGED <<room_mappings, discord_sent, approvals, flows>>
              /\ outcome' = [NoOutcome EXCEPT !.handler = "handle_discord_message_with_context",
                                              !.result = DiscordSendMessageResult,
                                              !.reply = DiscordSendMessageReply(<<"reply">>)]
         [] cmd \in {"ApproveRequested", "DenyRequested"} ->
              LET allow == cmd = "ApproveRequested"
                  status == MarkApprovalStatus(ctx.channel_id)
                  reply == IF status = "Expired" THEN LateText
                           ELSE IF allow THEN ApprovedText ELSE DeclinedText
              IN /\ approvals' = MarkApprovalState(ctx.channel_id, allow)
                 /\ flows' = MarkApprovalFlows(ctx.channel_id, allow)
                 /\ UNCHANGED <<room_mappings, discord_sent>>
                 /\ outcome' = [NoOutcome EXCEPT
                                   !.handler = "handle_discord_message_with_context",
                                   !.result = DiscordSendMessageResult,
                                   !.mark = status,
                                   !.reply = DiscordSendMessageReply(reply)]
         [] cmd = "UnbridgeRequested" ->
              /\ UNCHANGED <<discord_sent, approvals, flows>>
              /\ room_mappings' = IF IsSome(room_mapping)
                                  THEN DeleteRoomMapping(room_mappings, Unwrap(room_mapping).id)
                                  ELSE room_mappings
              /\ outcome' = [NoOutcome EXCEPT
                                !.handler = "handle_discord_message_with_context",
                                !.result = DiscordSendMessageResult,
                                !.reply = DiscordSendMessageReply(
                                    IF IsSome(room_mapping)
                                    THEN <<"This channel has been unbridged">>
                                    ELSE <<"This channel is not bridged to a plumbed matrix room">>)]

\* BridgeCore::handle_discord_message_with_context. send_ok: whether the
\* homeserver accepts the event.
HandleDiscordMessageWithContext(ctx, send_ok) ==
    LET room_mapping == GetRoomByDiscordChannel(ctx.channel_id)
    IN IF DiscordIsCommand(ctx.content)
       THEN HandleDiscordCommandOutcome(
                DiscordCommandOutcome(ctx.content, IsSome(room_mapping), ctx.permissions),
                ctx, room_mapping)
       ELSE IF ~IsSome(room_mapping)
       THEN /\ UNCHANGED <<room_mappings, message_mappings, ghosts, matrix_sent,
                           redactions, discord_sent, approvals, flows>>
            /\ outcome' = [NoOutcome EXCEPT !.handler = "handle_discord_message_with_context",
                                            !.result = "ok"]
       ELSE LET mapping == Unwrap(room_mapping)
                discord_user == GetUser(ctx.sender_id)
                display_name == discord_user.username
                outbound0 == DiscordToMatrix(
                                [channel_id |-> ctx.channel_id, sender_id |-> ctx.sender_id,
                                 content |-> ctx.content, attachments |-> ctx.attachments,
                                 reply_to |-> ctx.reply_to, edit_of |-> ctx.edit_of])
                reply_mapping == IF IsSome(outbound0.reply_to)
                                 THEN GetByDiscordMessageId(Unwrap(outbound0.reply_to))
                                 ELSE None
                edit_mapping == IF IsSome(outbound0.edit_of)
                                THEN GetByDiscordMessageId(Unwrap(outbound0.edit_of))
                                ELSE None
                outbound == ApplyMessageRelationMappings(outbound0, reply_mapping, edit_mapping)
                sent == MatrixSendRecord(mapping.matrix_room_id, ctx.sender_id,
                                         RenderBody(outbound), outbound.reply_to,
                                         outbound.edit_of)
            IN /\ ghosts' = EnsureGhostUserRegistered(ghosts, ctx.sender_id, Some(display_name))
               /\ UNCHANGED <<room_mappings, redactions, discord_sent, approvals, flows>>
               /\ IF send_ok
                  THEN /\ matrix_sent' = Append(matrix_sent, sent)
                       /\ message_mappings' =
                            IF IsSome(ctx.source_message_id)
                            THEN UpsertMessageMapping(message_mappings,
                                    [discord_message_id |-> Unwrap(ctx.source_message_id),
                                     matrix_room_id |-> mapping.matrix_room_id,
                                     matrix_event_id |-> sent.event_id])
                            ELSE message_mappings
                       /\ outcome' = [NoOutcome EXCEPT
                                         !.handler = "handle_discord_message_with_context",
                                         !.result = "ok",
                                         !.sent = Some(sent.event_id),
                                         !.source_id = ctx.source_message_id]
                  ELSE /\ UNCHANGED <<matrix_sent, message_mappings>>
                       /\ outcome' = [NoOutcome EXCEPT
                                         !.handler = "handle_discord_message_with_context",
                                         !.result = "err"]

\* What a step that invokes no bridge handler leaves alone.
Dropped ==
    /\ UNCHANGED <<room_mappings, message_mappings, ghosts, matrix_sent, redactions,
                   discord_sent, approvals, flows>>
    /\ outcome' = NoOutcome

DiscordFrame ==
    /\ notices' = <<>>
    /\ UNCHANGED <<next_room_row, processed_events, discord_client, aside>>

HandledKey(ev) == <<ev.source, ev.kind, ev.event_id>>

RecordHandled(ev) ==
    handled_ok' = IF outcome'.handler # "none" /\ outcome'.result = "ok"
                  THEN handled_ok \cup {HandledKey(ev)}
                  ELSE handled_ok

\* ReadySignalHandler::message
DiscordMessage(msg, send_ok) ==
    /\ is_logged_in
    /\ Len(matrix_sent) < MaxSends
    /\ inbound' = [NoInbound EXCEPT !.source = "discord", !.kind = "message",
                      !.event_id = Some(msg.id), !.place = msg.channel_id,
                      !.sender = msg.author_id, !.bot = msg.author_bot,
                      !.webhook_id = msg.webhook_id, !.content = msg.content,
                      !.reply_to = msg.referenced_message, !.ts = Some(msg.timestamp),
                      !.now = msg.now]
    /\ IF msg.author_bot
       THEN Dropped
       ELSE IF IsSome(msg.webhook_id) /\ Unwrap(msg.webhook_id) \in our_webhook_ids
       THEN Dropped
       ELSE HandleDiscordMessageWithContext(
                [channel_id |-> msg.channel_id, source_message_id |-> Some(msg.id),
                 sender_id |-> msg.author_id, content |-> msg.content,
                 attachments |-> <<>>, reply_to |-> msg.referenced_message,
                 edit_of |-> None, permissions |-> msg.permissions], send_ok)
    /\ RecordHandled(inbound')
    /\ DiscordFrame

\* ReadySignalHandler::message_update
DiscordMessageUpdate(upd, send_ok) ==
    /\ is_logged_in
    /\ Len(matrix_sent) < MaxSends
    /\ inbound' = [NoInbound EXCEPT !.source = "discord", !.kind = "message_update",
                      !.event_id = Some(upd.id), !.place = upd.channel_id,
                      !.sender = IF IsSome(upd.author) THEN Unwrap(upd.author).id ELSE <<>>,
                      !.bot = IsSome(upd.author) /\ Unwrap(upd.author).bot,
                      !.webhook_id = upd.webhook_id,
                      !.content = IF IsSome(upd.content) THEN Unwrap(upd.content) ELSE <<>>,
                      !.edit_of = Some(upd.id), !.ts = Some(upd.timestamp),
                      !.now = upd.now]
    /\ IF IsSome(upd.author) /\ Unwrap(upd.author).bot
       THEN Dropped
       ELSE IF ~IsSome(upd.content)
       THEN Dropped
       ELSE IF ~IsSome(upd.author)
       THEN Dropped
       ELSE HandleDiscordMessageWithContext(
                [channel_id |-> upd.channel_id, source_message_id |-> Some(upd.id),
                 sender_id |-> Unwrap(upd.author).id, content |-> Unwrap(upd.content),
                 attachments |-> <<>>, reply_to |-> None,
                 edit_of |-> Some(upd.id), permissions |-> {}], send_ok)
    /\ RecordHandled(inbound')
    /\ DiscordFrame

\* ReadySignalHandler::message_delete -> BridgeCore::handle_discord_message_delete.
\* redact_ok: whether the homeserver accepts the redaction.
DiscordMessageDelete(channel_id, message_id, redact_ok) ==
    /\ is_logged_in
    /\ inbound' = [NoInbound EXCEPT !.source = "discord", !.kind = "message_delete",
                      !.event_id = Some(message_id), !.place = channel_id]
    /\ LET link == GetByDiscordMessageId(message_id)
       IN IF ~IsSome(link)
          THEN /\ UNCHANGED <<message_mappings, redactions>>
               /\ outcome' = [NoOutcome EXCEPT !.handler = "handle_discord_message_delete",
                                               !.result = "ok"]
          ELSE IF redact_ok
          THEN /\ redactions' = Append(redactions,
                                       BuildDiscordDeleteRedactionRequest(Unwrap(link)))
               /\ message_mappings' = DeleteByDiscordMessageId(message_mappings, message_id)
               /\ outcome' = [NoOutcome EXCEPT !.handler = "handle_discord_message_delete",
                                               !.result = "ok"]
          ELSE /\ UNCHANGED <<message_mappings, redactions>>
               /\ outcome' = [NoOutcome EXCEPT !.handler = "handle_discord_message_delete",
                                               !.result = "err"]
    /\ UNCHANGED <<room_mappings, ghosts, matrix_sent, discord_sent, approvals, flows>>
    /\ RecordHandled(inbound')
    /\ DiscordFrame

\* unique_message_ids, as a deduplication that keeps the last occurrence of
\* each id would do it.
RECURSIVE UniqueMessageIdsKeepLast(_)
UniqueMessageIdsKeepLast(ids) ==
    IF ids = <<>> THEN <<>>
    ELSE IF \E k \in 2..Len(ids) : ids[k] = Head(ids)
    THEN UniqueMessageIdsKeepLast(Tail(ids))
    ELSE <<Head(ids)>> \o UniqueMessageIdsKeepLast(Tail(ids))

\* The filter of unique_message_ids over the rest of the ids: seen.insert(id)
\* is true for an id not seen before.
RECURSIVE UniqueFilter(_, _)
UniqueFilter(ids, seen) ==
    IF ids = <<>> THEN <<>>
    ELSE IF Head(ids) \in seen
    THEN UniqueFilter(Tail(ids), seen)
    ELSE <<Head(ids)>> \o UniqueFilter(Tail(ids), seen \cup {Head(ids)})

\* unique_message_ids
UniqueMessageIds(ids) == UniqueFilter(ids, {})

\* BridgeCore::handle_discord_message_delete on the stores as st has them.
\* st.calls gets the id and the result of the call.
HandleDiscordMessageDelete(st, message_id, redact_ok) ==
    LET hit == {m \in st.rows : m.discord_message_id = message_id}
    IN IF hit = {}
       THEN [st EXCEPT !.calls = Append(@, [id |-> message_id, result |-> "ok"])]
       ELSE IF redact_ok
       THEN [rows |-> DeleteByDiscordMessageId(st.rows, message_id),
             redactions |-> Append(st.redactions,
                                   BuildDiscordDeleteRedactionRequest(CHOOSE m \in hit : TRUE)),
             calls |-> Append(st.calls, [id |-> message_id, result |-> "ok"])]
       ELSE [st EXCEPT !.calls = Append(@, [id |-> message_id, result |-> "err"])]

\* The loop of message_delete_bulk: an error is logged and the loop goes on.
RECURSIVE BulkDeleteLoop(_, _, _)
BulkDeleteLoop(st, ids, failing) ==
    IF ids = <<>> THEN st
    ELSE BulkDeleteLoop(HandleDiscordMessageDelete(st, Head(ids), Head(ids) \notin failing),
                        Tail(ids), failing)

\* ReadySignalHandler::message_delete_bulk. failing: the ids whose redaction
\* the homeserver refuses.
DiscordMessageDeleteBulk(channel_id, ids, failing) ==
    /\ is_logged_in
    /\ inbound' = [NoInbound EXCEPT !.source = "discord", !.kind = "message_delete_bulk",
                      !.place = channel_id, !.content = ids]
    /\ LET done == BulkDeleteLoop([rows |-> message_mappings, redactions |-> redactions,
                                   calls |-> <<>>],
                                  UniqueMessageIds(ids), failing)
       IN /\ message_mappings' = done.rows
          /\ redactions' = done.redactions
          /\ outcome' = [NoOutcome EXCEPT
                            !.handler = "handle_discord_message_delete",
                            !.result = IF \E i \in DOMAIN done.calls :
                                             done.calls[i].result = "err"
                                       THEN "err" ELSE "ok",
                            !.calls = done.calls]
    /\ UNCHANGED <<room_mappings, ghosts, matrix_sent, discord_sent, approvals, flows>>
    /\ RecordHandled(inbound')
    /\ DiscordFrame

\* DiscordClient::login, when the gateway reports Ready within 30 s. got_http:
\* whether the Http handle arrives within the 5 s that follow.
Login(got_http) ==
    /\ notices' = <<>>
    /\ ~is_logged_in
    /\ is_logged_in' = TRUE
    /\ http' = got_http
    /\ inbound' = NoInbound
    /\ outcome' = NoOutcome
    /\ UNCHANGED <<stores, our_webhook_ids, webhook_cache, send_lock, matrix_side,
                   discord_sent, provisioning, aside, handled_ok>>

\* get_or_create_webhook, as a variant that never records the id would do it.
GetOrCreateWebhookIdsUnrecorded(channel) == our_webhook_ids

\* DiscordClient::get_or_create_webhook, when the fetch and the create succeed.
GetOrCreateWebhookIds(channel) ==
    IF IsSome(webhook_cache[channel]) THEN our_webhook_ids
    ELSE our_webhook_ids \cup {WebhookOf(channel)}

GetOrCreateWebhookCache(channel) ==
    IF IsSome(webhook_cache[channel]) THEN webhook_cache
    ELSE [webhook_cache EXCEPT ![channel] = Some(WebhookOf(channel))]

\* Whether a string parses as u64: Discord ids do, Matrix event ids ("$...") do not.
ParsesAsU64(id) ==
    id \in DiscordMsgIds \cup {DiscordReturnedSeq[i] : i \in 1..Len(DiscordReturnedSeq)}

\* DiscordClient::send_message_with_metadata_as_user. The result is
\* [result, log, lock, ids, cache]: what the call returns and what it leaves.
\* webhook_ok: get_or_create_webhook succeeds; send_ok: Discord accepts the send.
SendMessageWithMetadataAsUser(channel_id, content, reply_to, edit_of, username, webhook_ok, send_ok) ==
    LET same == [result |-> "err", log |-> discord_sent, lock |-> send_lock,
                 ids |-> our_webhook_ids, cache |-> webhook_cache, message_id |-> None]
        new_id == DiscordReturnedSeq[Len(discord_sent) + 1]
    IN IF send_lock
       THEN [same EXCEPT !.result = "blocked"]
       ELSE IF ~http
       THEN \* falls back to send_message, which locks send_lock again
            [same EXCEPT !.result = "blocked", !.lock = TRUE]
       ELSE IF IsSome(username) /\ webhook_ok
       THEN LET ids == GetOrCreateWebhookIds(channel_id)
                cache == GetOrCreateWebhookCache(channel_id)
            IN IF IsSome(edit_of) /\ ~ParsesAsU64(Unwrap(edit_of))
               THEN [same EXCEPT !.ids = ids, !.cache = cache]
               ELSE IF ~send_ok
               THEN [same EXCEPT !.ids = ids, !.cache = cache]
               ELSE LET mid == IF IsSome(edit_of) THEN Unwrap(edit_of) ELSE new_id
                    IN [result |-> "ok",
                        log |-> Append(discord_sent,
                                   [channel_id |-> channel_id, content |-> content,
                                    via |-> Unwrap(cache[channel_id]),
                                    reply_to |-> reply_to, edit_of |-> edit_of,
                                    message_id |-> mid]),
                        lock |-> send_lock, ids |-> ids, cache |-> cache,
                        message_id |-> Some(mid)]
       ELSE IF IsSome(edit_of) /\ ~ParsesAsU64(Unwrap(edit_of))
       THEN same
       ELSE IF ~send_ok
       THEN same
       ELSE LET mid == IF IsSome(edit_of) THEN Unwrap(edit_of) ELSE new_id
            IN [result |-> "ok",
                log |-> Append(discord_sent,
                           [channel_id |-> channel_id, content |-> content,
                            via |-> "direct", reply_to |-> reply_to, edit_of |-> edit_of,
                            message_id |-> mid]),
                lock |-> send_lock, ids |-> our_webhook_ids, cache |-> webhook_cache,
                message_id |-> Some(mid)]

\* A call of the public DiscordClient::send_message_with_metadata_as_user with
\* a user name, as the webhook delivery path makes it.
SendAsUser(channel_id, webhook_ok, send_ok) ==
    /\ notices' = <<>>
    /\ Len(discord_sent) < MaxDiscordSends
    /\ LET r == SendMessageWithMetadataAsUser(channel_id, Text, None, None,
                                              Some(<<"alice">>), webhook_ok, send_ok)
       IN /\ discord_sent' = r.log
          /\ send_lock' = r.lock
          /\ our_webhook_ids' = r.ids
          /\ webhook_cache' = r.cache
          /\ outcome' = [NoOutcome EXCEPT !.handler = "send_message_with_metadata_as_user",
                                          !.result = r.result, !.sent = r.message_id]
    /\ inbound' = NoInbound
    /\ UNCHANGED <<stores, is_logged_in, http, matrix_side, provisioning, aside, handled_ok>>

\* web/handlers/provisioning.rs create_bridge: 409 when either side is already
\* bridged, 201 with the row inserted otherwise.
AdminCreateBridge(matrix_room_id, discord_channel_id) ==
    /\ notices' = <<>>
    /\ next_room_row <= MaxRoomRows
    /\ inbound' = [NoInbound EXCEPT !.source = "api", !.kind = "create_bridge",
                      !.place = matrix_room_id]
    /\ IF IsSome(GetRoomByMatrixRoom(matrix_room_id))
          \/ IsSome(GetRoomByDiscordChannel(discord_channel_id))
       THEN /\ UNCHANGED <<room_mappings, next_room_row>>
            /\ outcome' = [NoOutcome EXCEPT !.handler = "create_bridge", !.result = "409"]
       ELSE /\ room_mappings' = room_mappings \cup
                    {[id |-> next_room_row, matrix_room_id |-> matrix_room_id,
                      discord_channel_id |-> discord_channel_id]}
            /\ next_room_row' = next_room_row + 1
            /\ outcome' = [NoOutcome EXCEPT !.handler = "create_bridge", !.result = "201"]
    /\ UNCHANGED <<message_mappings, processed_events, discord_client, matrix_side,
                   discord_sent, provisioning, aside, handled_ok>>

\* ------------------------------------------------------- matrix dispatcher

\* check_event_age, as a cutoff that rejects the age of exactly AGE_LIMIT_MS.
CheckEventAgeExclusive(timestamp, now) ==
    IF IsSome(timestamp) /\ Unwrap(timestamp).parses
    THEN LET ts == Unwrap(timestamp).value
         IN IF ts > now THEN TRUE
            ELSE IF now - ts >= AGE_LIMIT_MS THEN FALSE
            ELSE TRUE
    ELSE TRUE

\* MatrixEventProcessor::check_event_age. timestamp: Option of
\* [parses, value], the origin_server_ts rendered as a string.
CheckEventAge(timestamp, now) ==
    IF IsSome(timestamp) /\ Unwrap(timestamp).parses
    THEN LET ts == Unwrap(timestamp).value
         IN IF ts > now THEN TRUE
            ELSE IF now - ts > AGE_LIMIT_MS THEN FALSE
            ELSE TRUE
    ELSE TRUE

\* check_permission, as one that lets the sender through when the power
\* levels cannot be fetched.
CheckPermissionFailOpen(power_levels, required_level) ==
    IF power_levels.ok
    THEN LET user_level ==
                 IF IsSome(power_levels.user) THEN Unwrap(power_levels.user)
                 ELSE IF IsSome(power_levels.users_default)
                      THEN Unwrap(power_levels.users_default)
                      ELSE 0
         IN user_level >= required_level
    ELSE TRUE

\* MatrixAppservice::check_permission. power_levels: [ok, user, users_default],
\* the m.room.power_levels fetch and the two levels it may hold for the user.
CheckPermission(power_levels, required_level) ==
    IF power_levels.ok
    THEN LET user_level ==
                 IF IsSome(power_levels.user) THEN Unwrap(power_levels.user)
                 ELSE IF IsSome(power_levels.users_default)
                      THEN Unwrap(power_levels.users_default)
                      ELSE 0
         IN user_level >= required_level
    ELSE FALSE

PowerLevelSamples ==
    {[ok |-> FALSE, user |-> None, users_default |-> None],
     [ok |-> TRUE, user |-> Some(50), users_default |-> None],
     [ok |-> TRUE, user |-> Some(49), users_default |-> Some(100)],
     [ok |-> TRUE, user |-> None, users_default |-> None]}

\* MatrixCommandHandler::is_command
MatrixIsCommand(body) == Len(body) > 0 /\ body[1] = "!discord"

\* MatrixCommandHandler::handle
MatrixCommandOutcome(body, is_bridged, has_permissions) ==
    IF Len(body) < 2 THEN "Reply"
    ELSE IF ~has_permissions THEN "Reply"
    ELSE CASE body[2] = "bridge" /\ Len(body) = 4 -> "BridgeRequested"
           [] body[2] = "unbridge" -> "UnbridgeRequested"
           [] OTHER -> "Reply"

\* MessageFlow::parse_matrix_event and MessageFlow::matrix_to_discord
MatrixToDiscord(ev) ==
    [content |-> ev.body, reply_to |-> ev.reply_to, edit_of |-> ev.edit_of,
     attachments |-> <<>>]

\* OutboundDiscordMessage::render_content
RenderContent(outbound) == outbound.content

AskingText == <<"I'm asking permission from the guild administrators to make this bridge.">>
TimedOutText == <<"Timed out waiting for a response from the Discord owners.">>
DeclinedBridgeText == <<"The bridge has been declined by the Discord guild.">>
ProblemText == <<"There was a problem bridging that channel - has the guild owner approved the bridge?">>
AlreadyBridgedText == <<"This Discord channel is already bridged.">>
BridgedText == <<"I have bridged this room to your channel">>
NotBridgedText == <<"This room is not bridged.">>
UnbridgedText == <<"This room has been unbridged">>

\* BridgeCore::check_room_limit
RoomLimitText(limit) ==
    <<"This bridge has reached its room limit of ", ToString(limit),
      ". Unbridge another room to allow for new connections.">>

\* check_room_limit, as a buggy variant would do it: the store may hold one
\* mapping more than the limit.
CheckRoomLimitOffByOne ==
    IF room_count < 0 THEN None
    ELSE IF Cardinality(room_mappings) > room_count
    THEN Some(RoomLimitText(room_count))
    ELSE None

CheckRoomLimit ==
    IF room_count < 0 THEN None
    ELSE IF Cardinality(room_mappings) >= room_count
    THEN Some(RoomLimitText(room_count))
    ELSE None

Notice(room_id, content) == [room_id |-> room_id, content |-> content]

\* ask_bridge_permission, as a buggy variant would do it: a request is
\* admitted while the channel's earlier request is still Pending.
AskBridgePermissionNeverRefused(channel) == FALSE

\* ProvisioningCoordinator::ask_bridge_permission, up to its wait: an error
\* while the channel's request is Pending, a new Pending request otherwise.
AskBridgePermissionRefused(channel) == approvals[channel].status = "Pending"

AskBridgePermissionState(channel, requestor) ==
    IF approvals[channel].status = "Pending" THEN approvals
    ELSE [approvals EXCEPT ![channel] = [status |-> "Pending", requestor |-> requestor]]

\* BridgeCore::request_bridge_matrix_room, up to the wait on
\* ask_bridge_permission. f: the task that handles the transaction.
RequestBridgeMatrixRoom(f, matrix_room_id, matrix_requestor, guild_id, channel_id) ==
    LET limit_message == CheckRoomLimit
    IN IF IsSome(limit_message)
       THEN /\ notices' = <<Notice(matrix_room_id, Unwrap(limit_message))>>
            /\ UNCHANGED <<approvals, flows>>
            /\ outcome' = [NoOutcome EXCEPT !.handler = "handle_matrix_message", !.result = "ok"]
       ELSE IF IsSome(GetRoomByDiscordChannel(channel_id))
       THEN /\ notices' = <<Notice(matrix_room_id, AlreadyBridgedText)>>
            /\ UNCHANGED <<approvals, flows>>
            /\ outcome' = [NoOutcome EXCEPT !.handler = "handle_matrix_message", !.result = "ok"]
       ELSE IF AskBridgePermissionRefused(channel_id)
       THEN /\ notices' = <<Notice(matrix_room_id, AskingText),
                                       Notice(matrix_room_id, ProblemText)>>
            /\ UNCHANGED <<approvals, flows>>
            /\ outcome' = [NoOutcome EXCEPT !.handler = "handle_matrix_message",
                                            !.result = "ok", !.answer = "Error"]
       ELSE /\ notices' = <<Notice(matrix_room_id, AskingText)>>
            /\ approvals' = AskBridgePermissionState(channel_id, matrix_requestor)
            /\ flows' = [flows EXCEPT ![f] =
                            [pc |-> "waiting", room |-> matrix_room_id,
                             requestor |-> matrix_requestor, guild |-> guild_id,
                             channel |-> channel_id, answer |-> "none"]]
            /\ outcome' = [NoOutcome EXCEPT !.handler = "handle_matrix_message",
                                            !.result = "waiting"]

\* BridgeCore::unbridge_matrix_room
UnbridgeMatrixRoom(matrix_room_id) ==
    LET room_mapping == GetRoomByMatrixRoom(matrix_room_id)
    IN IF ~IsSome(room_mapping)
       THEN /\ UNCHANGED room_mappings
            /\ notices' = <<Notice(matrix_room_id, NotBridgedText)>>
       ELSE /\ room_mappings' = DeleteRoomMapping(room_mappings, Unwrap(room_mapping).id)
            /\ notices' = <<Notice(matrix_room_id, UnbridgedText)>>

\* BridgeCore::handle_matrix_message
HandleMatrixMessage(f, ev, power_levels, send_ok) ==
    LET body == ev.body
        room_mapping == GetRoomByMatrixRoom(ev.room_id)
    IN IF MatrixIsCommand(body)
       THEN LET has_permissions == CheckPermission(power_levels, REQUIRED_POWER_LEVEL)
                cmd == MatrixCommandOutcome(body, IsSome(room_mapping), has_permissions)
            IN /\ UNCHANGED <<discord_sent, send_lock>>
               /\ CASE cmd = "Reply" ->
                         /\ notices' = <<Notice(ev.room_id, <<"reply">>)>>
                         /\ UNCHANGED <<room_mappings, approvals, flows>>
                         /\ outcome' = [NoOutcome EXCEPT !.handler = "handle_matrix_message",
                                                         !.result = "ok"]
                    [] cmd = "BridgeRequested" ->
                         /\ RequestBridgeMatrixRoom(f, ev.room_id, ev.sender, body[3], body[4])
                         /\ UNCHANGED room_mappings
                    [] cmd = "UnbridgeRequested" ->
                         /\ UnbridgeMatrixRoom(ev.room_id)
                         /\ UNCHANGED <<approvals, flows>>
                         /\ outcome' = [NoOutcome EXCEPT !.handler = "handle_matrix_message",
                                                         !.result = "ok"]
       ELSE IF ~IsSome(room_mapping)
       THEN /\ UNCHANGED <<discord_sent, send_lock, room_mappings, approvals, flows>>
            /\ notices' = <<>>
            /\ outcome' = [NoOutcome EXCEPT !.handler = "handle_matrix_message", !.result = "ok"]
       ELSE LET outbound == MatrixToDiscord(ev)
                r == SendMessageWithMetadataAsUser(
                         Unwrap(room_mapping).discord_channel_id, RenderContent(outbound),
                         outbound.reply_to, outbound.edit_of, None, FALSE, send_ok)
            IN /\ discord_sent' = r.log
               /\ send_lock' = r.lock
               /\ UNCHANGED <<room_mappings, approvals, flows>>
               /\ notices' = <<>>
               /\ outcome' = [NoOutcome EXCEPT !.handler = "handle_matrix_message",
                                               !.result = r.result, !.sent = r.message_id,
                                               !.source_id = ev.event_id]

\* MatrixEventProcessor::process_event, as on_transaction calls it for one
\* event of a transaction. f: the task handling it.
ProcessEvent(f, ev, now, power_levels, send_ok) ==
    /\ flows[f].pc = "idle"
    /\ Len(discord_sent) < MaxDiscordSends
    /\ inbound' = [NoInbound EXCEPT !.source = "matrix", !.kind = ev.type,
                      !.event_id = ev.event_id, !.place = ev.room_id,
                      !.sender = ev.sender, !.content = ev.body,
                      !.reply_to = ev.reply_to, !.edit_of = ev.edit_of,
                      !.ts = IF IsSome(ev.origin_server_ts) /\ Unwrap(ev.origin_server_ts).parses
                             THEN Some(Unwrap(ev.origin_server_ts).value) ELSE None,
                      !.now = now,
                      !.power_levels =
                          IF /\ CheckEventAge(ev.origin_server_ts, now)
                             /\ ev.type = "m.room.message"
                             /\ MatrixIsCommand(ev.body)
                          THEN Some(power_levels) ELSE None]
    /\ IF ~CheckEventAge(ev.origin_server_ts, now)
       THEN /\ UNCHANGED <<discord_sent, send_lock, room_mappings, approvals, flows>>
            /\ notices' = <<>>
            /\ outcome' = NoOutcome
       ELSE IF ev.type = "m.room.message"
       THEN HandleMatrixMessage(f, ev, power_levels, send_ok)
       ELSE /\ UNCHANGED <<discord_sent, send_lock, room_mappings, approvals, flows>>
            /\ notices' = <<>>
            /\ outcome' = NoOutcome
    /\ RecordHandled(inbound')
    /\ UNCHANGED <<next_room_row, message_mappings, processed_events, our_webhook_ids,
                   webhook_cache, is_logged_in, http, ghosts, matrix_sent, redactions,
                   rel, room_count, admin, workers>>

\* BridgeAppserviceHandler::on_transaction for one event of the transaction,
\* through MatrixEventProcessor::process_event. f: the task handling it.
MatrixEvent(f, ev, now, power_levels, send_ok) ==
    /\ ProcessEvent(f, ev, now, power_levels, send_ok)
    /\ UNCHANGED txn

\* BridgeCore::bridge_matrix_room: [reply, rows, next]; reply None when
\* create_room_mapping fails and the error propagates.
BridgeMatrixRoom(matrix_room_id, guild_id, channel_id) ==
    LET limit_message == CheckRoomLimit
        same == [reply |-> None, rows |-> room_mappings, next |-> next_room_row]
    IN IF IsSome(limit_message)
       THEN [same EXCEPT !.reply = limit_message]
       ELSE IF IsSome(GetRoomByDiscordChannel(channel_id))
       THEN [same EXCEPT !.reply = Some(AlreadyBridgedText)]
       ELSE IF RoomInsertConflicts(matrix_room_id, channel_id)
       THEN same
       ELSE [reply |-> Some(BridgedText),
             rows |-> room_mappings \cup
                         {[id |-> next_room_row, matrix_room_id |-> matrix_room_id,
                           discord_channel_id |-> channel_id]},
             next |-> next_room_row + 1]

\* The match on ask_bridge_permission's result in request_bridge_matrix_room,
\* as a buggy variant would do it: a timeout is taken for an approval.
BridgeOnAnswerLenient(answer, matrix_room_id, guild_id, channel_id) ==
    LET same == [reply |-> None, rows |-> room_mappings, next |-> next_room_row]
    IN CASE answer \in {"Approved", "TimedOut"} ->
                BridgeMatrixRoom(matrix_room_id, guild_id, channel_id)
         [] answer = "Declined" -> [same EXCEPT !.reply = Some(DeclinedBridgeText)]
         [] OTHER -> [same EXCEPT !.reply = Some(ProblemText)]

\* The match on ask_bridge_permission's result in request_bridge_matrix_room.
BridgeOnAnswer(answer, matrix_room_id, guild_id, channel_id) ==
    LET same == [reply |-> None, rows |-> room_mappings, next |-> next_room_row]
    IN CASE answer = "Approved" -> BridgeMatrixRoom(matrix_room_id, guild_id, channel_id)
         [] answer = "TimedOut" -> [same EXCEPT !.reply = Some(TimedOutText)]
         [] answer = "Declined" -> [same EXCEPT !.reply = Some(DeclinedBridgeText)]
         [] OTHER -> [same EXCEPT !.reply = Some(ProblemText)]

\* request_bridge_matrix_room from the point where ask_bridge_permission
\* resolves, and the notice handle_matrix_command_outcome sends with its reply.
BridgeResume(f) ==
    /\ flows[f].pc = "waiting"
    /\ next_room_row <= MaxRoomRows
    /\ flows[f].answer # "none"
    /\ LET w == flows[f]
           r == BridgeOnAnswer(w.answer, w.room, w.guild, w.channel)
       IN /\ room_mappings' = r.rows
          /\ next_room_row' = r.next
          /\ notices' = IF IsSome(r.reply)
                        THEN <<Notice(w.room, Unwrap(r.reply))>>
                        ELSE <<>>
          /\ inbound' = [NoInbound EXCEPT !.source = "matrix", !.kind = "bridge_resume",
                            !.place = w.room, !.sender = w.requestor]
          /\ outcome' = [NoOutcome EXCEPT !.handler = "request_bridge_matrix_room",
                            !.result = IF IsSome(r.reply) THEN "ok" ELSE "err",
                            !.answer = w.answer]
    /\ flows' = [flows EXCEPT ![f] = IdleFlow]
    /\ UNCHANGED <<message_mappings, processed_events, discord_client, ghosts, matrix_sent,
                   redactions, discord_sent, approvals, aside, handled_ok>>

\* ProvisioningCoordinator: the deadline of a Pending request elapses.
DeadlineElapsed(channel) ==
    /\ notices' = <<>>
    /\ approvals[channel].status = "Pending"
    /\ approvals' = [approvals EXCEPT ![channel].status = "Expired"]
    /\ flows' = ResolveWaiters(channel, "TimedOut")
    /\ inbound' = NoInbound
    /\ outcome' = NoOutcome
    /\ UNCHANGED <<stores, discord_client, matrix_side, discord_sent, aside, handled_ok>>

\* ------------------------------------------------------------------ inputs

\* A gateway message that is forwarded, and the ways an event departs from it.
PlainDiscordMessage(id, content) ==
    [id |-> id, channel_id |-> "c1", author_id |-> <<"u1">>, author_bot |-> FALSE,
     webhook_id |-> None, content |-> content, referenced_message |-> None,
     permissions |-> {"MANAGE_CHANNELS"}, timestamp |-> NowBase, now |-> NowBase]

DiscordMessageShapes(id, content) ==
    LET p == PlainDiscordMessage(id, content)
    IN {p,
        [p EXCEPT !.author_bot = TRUE],
        [p EXCEPT !.webhook_id = Some(WebhookOf("c1"))],
        [p EXCEPT !.webhook_id = Some(ForeignWebhook)],
        [p EXCEPT !.referenced_message = Some(IF id = "m1" THEN "m2" ELSE "m1")],
        [p EXCEPT !.timestamp = NowBase - (AGE_LIMIT_MS + 1)]}

DiscordMessages == UNION {DiscordMessageShapes(id, Text) : id \in DiscordMsgIds}

DiscordCommands ==
    {[PlainDiscordMessage("m1", c) EXCEPT !.channel_id = ch] :
        c \in {<<"!matrix", "approve">>, <<"!matrix", "deny">>}, ch \in Channels}
    \cup {[PlainDiscordMessage("m1", <<"!matrix", "unbridge">>) EXCEPT !.permissions = perms] :
             perms \in {{}, {"MANAGE_CHANNELS"}}}

PlainDiscordUpdate(id) ==
    [id |-> id, channel_id |-> "c1", author |-> Some([id |-> <<"u1">>, bot |-> FALSE]),
     webhook_id |-> None, content |-> Some(Text), timestamp |-> NowBase, now |-> NowBase]

DiscordUpdateShapes(id) ==
    LET p == PlainDiscordUpdate(id)
    IN {p,
        [p EXCEPT !.author = None],
        [p EXCEPT !.author = Some([id |-> <<"u1">>, bot |-> TRUE])],
        [p EXCEPT !.content = None],
        [p EXCEPT !.webhook_id = Some(WebhookOf("c1"))]}

DiscordUpdates == UNION {DiscordUpdateShapes(id) : id \in DiscordMsgIds}

Stamp(t) == Some([parses |-> TRUE, value |-> t])

PlainMatrixEvent(body) ==
    [event_id |-> Some("$a1"), type |-> "m.room.message", room_id |-> "r1",
     sender |-> <<"@alice:example.org">>, body |-> body, reply_to |-> None,
     edit_of |-> None, origin_server_ts |-> Stamp(NowBase)]

MatrixEventShapes(body) ==
    LET p == PlainMatrixEvent(body)
    IN {p,
        [p EXCEPT !.type = "m.sticker"],
        [p EXCEPT !.room_id = "r2"],
        [p EXCEPT !.event_id = Some("$a2")],
        [p EXCEPT !.reply_to = Some("$e1")],
        [p EXCEPT !.edit_of = Some("$e1")],
        [p EXCEPT !.edit_of = Some("d1")],
        [p EXCEPT !.origin_server_ts = None],
        [p EXCEPT !.origin_server_ts = Some([parses |-> FALSE, value |-> 0])],
        [p EXCEPT !.origin_server_ts = Stamp(NowBase + 60000)],
        [p EXCEPT !.origin_server_ts = Stamp(NowBase - AGE_LIMIT_MS)],
        [p EXCEPT !.origin_server_ts = Stamp(NowBase - (AGE_LIMIT_MS + 1))]}

MatrixMessages == MatrixEventShapes(Text)

MatrixCommands ==
    {[PlainMatrixEvent(b) EXCEPT !.room_id = r] :
        b \in {<<"!discord", "bridge", "g1", c>> : c \in Channels}
              \cup {<<"!discord", "unbridge">>},
        r \in Rooms}

\* ---------------------------------------------------------- specifications

\* Discord to Matrix: the gateway callbacks over a bridged channel.
Next ==
    \/ Login(TRUE)
    \/ AdminCreateBridge("r1", "c1")
    \/ \E ok \in BOOLEAN : SendAsUser("c1", TRUE, ok)
    \/ \E msg \in DiscordMessages, send_ok \in BOOLEAN : DiscordMessage(msg, send_ok)
    \/ \E upd \in DiscordUpdates, send_ok \in BOOLEAN : DiscordMessageUpdate(upd, send_ok)
    \/ \E m \in DiscordMsgIds, ok \in BOOLEAN : DiscordMessageDelete("c1", m, ok)

Spec == Init /\ [][Next]_vars

\* Matrix to Discord: the transaction dispatcher over a bridged room.
NextMatrix ==
    \/ \E got_http \in BOOLEAN : Login(got_http)
    \/ \E c \in Channels : AdminCreateBridge("r1", c)
    \/ \E ev \in MatrixMessages, ok \in BOOLEAN :
          MatrixEvent(1, ev, NowBase, [ok |-> FALSE, user |-> None, users_default |-> None], ok)

SpecMatrix == Init /\ [][NextMatrix]_vars

\* The task that takes the next transaction: tasks are interchangeable.
FreeTask ==
    IF \E f \in FlowIds : flows[f].pc = "idle"
    THEN CHOOSE f \in FlowIds : flows[f].pc = "idle" /\ \A g \in FlowIds :
                                    flows[g].pc = "idle" => f <= g
    ELSE 1

\* Provisioning: the command paths of both sides and the approval wait.
CommandPowerLevels ==
    {pl \in PowerLevelSamples : pl.ok /\ IsSome(pl.user)}

NextProvisioning ==
    \/ Login(TRUE)
    \/ \E ev \in MatrixCommands, pl \in CommandPowerLevels :
          MatrixEvent(FreeTask, ev, NowBase, pl, TRUE)
    \/ \E msg \in DiscordCommands : DiscordMessage(msg, TRUE)
    \/ \E f \in FlowIds : BridgeResume(f)
    \/ \E c \in Channels : DeadlineElapsed(c)

SpecProvisioning == Init /\ [][NextProvisioning]_vars


\* apply_message_relation_mappings on inputs drawn from small sets.
RelationLinks ==
    {None} \cup {Some([discord_message_id |-> d, matrix_room_id |-> "r1",
                       matrix_event_id |-> e]) : d \in {"m1"}, e \in {"$e1", "$e2"}}

RelationOutbounds ==
    [body : {Text}, reply_to : {None, Some("m1"), Some("m2")},
     edit_of : {None, Some("m1"), Some("m2")}, attachments : {<<>>, <<"file">>}]

InitRelations ==
    /\ Constructed
    /\ room_count = RoomCountLimit
    /\ admin = [a \in AdminIds |-> IdleAdmin]
    /\ WorkersIdle
    /\ ConfigDefaults
    /\ NothingRendered
    /\ rel \in [outbound : RelationOutbounds, reply_mapping : RelationLinks,
                edit_mapping : RelationLinks, result : {NoRel.result}, applied : {FALSE}]

ApplyRelations ==
    /\ ~rel.applied
    /\ rel' = [rel EXCEPT !.result = ApplyMessageRelationMappings(
                                         rel.outbound, rel.reply_mapping, rel.edit_mapping),
                          !.applied = TRUE]
    /\ UNCHANGED <<stores, discord_client, matrix_side, notices, discord_sent, provisioning,
                   history, room_count, admin, workers, txn>>

NextRelations == ApplyRelations

SpecRelations == InitRelations /\ [][NextRelations]_vars

\* ------------------------------------------------- admin HTTP surface, stepwise

\* create_bridge up to its insert: the two lookups. 409 when either side is
\* bridged; otherwise the request goes on to create_room_mapping.
AdminCreateCheck(a, matrix_room_id, discord_channel_id) ==
    /\ admin[a].pc = "idle"
    /\ next_room_row <= MaxRoomRows
    /\ inbound' = [NoInbound EXCEPT !.source = "api", !.kind = "create_bridge",
                      !.place = matrix_room_id, !.content = <<discord_channel_id>>]
    /\ IF IsSome(GetRoomByMatrixRoom(matrix_room_id))
          \/ IsSome(GetRoomByDiscordChannel(discord_channel_id))
       THEN /\ UNCHANGED admin
            /\ outcome' = [NoOutcome EXCEPT !.handler = "create_bridge", !.result = "409"]
       ELSE /\ admin' = [admin EXCEPT ![a] = [pc |-> "checked", room |-> matrix_room_id,
                                              channel |-> discord_channel_id]]
            /\ outcome' = NoOutcome
    /\ notices' = <<>>
    /\ UNCHANGED <<stores, discord_client, matrix_side, discord_sent, provisioning,
                   rel, room_count, workers, txn, handled_ok>>

\* create_bridge from its insert on: 201 with the row, 500 when
\* create_room_mapping fails on a UNIQUE column.
AdminCreateInsert(a) ==
    /\ admin[a].pc = "checked"
    /\ next_room_row <= MaxRoomRows
    /\ inbound' = [NoInbound EXCEPT !.source = "api", !.kind = "create_bridge",
                      !.place = admin[a].room, !.content = <<admin[a].channel>>]
    /\ IF RoomInsertConflicts(admin[a].room, admin[a].channel)
       THEN /\ UNCHANGED <<room_mappings, next_room_row>>
            /\ outcome' = [NoOutcome EXCEPT !.handler = "create_bridge", !.result = "500"]
       ELSE /\ room_mappings' = room_mappings \cup
                    {[id |-> next_room_row, matrix_room_id |-> admin[a].room,
                      discord_channel_id |-> admin[a].channel]}
            /\ next_room_row' = next_room_row + 1
            /\ outcome' = [NoOutcome EXCEPT !.handler = "create_bridge", !.result = "201"]
    /\ admin' = [admin EXCEPT ![a] = IdleAdmin]
    /\ notices' = <<>>
    /\ UNCHANGED <<message_mappings, processed_events, discord_client, matrix_side,
                   discord_sent, provisioning, rel, room_count, workers, txn, handled_ok>>

\* delete_bridge: the row of that id, if any, is deleted; 200 either way.
AdminDeleteBridge(id) ==
    /\ inbound' = [NoInbound EXCEPT !.source = "api", !.kind = "delete_bridge"]
    /\ room_mappings' = DeleteRoomMapping(room_mappings, id)
    /\ outcome' = [NoOutcome EXCEPT !.handler = "delete_bridge", !.result = "200"]
    /\ notices' = <<>>
    /\ UNCHANGED <<next_room_row, message_mappings, processed_events, discord_client,
                   matrix_side, discord_sent, provisioning, aside, handled_ok>>

\* The request slot the next create_bridge call takes: slots are interchangeable.
FreeAdmin ==
    IF admin[1].pc = "idle" THEN 1 ELSE 2

PermittedPowerLevels == {pl \in PowerLevelSamples : CheckPermission(pl, REQUIRED_POWER_LEVEL)}

\* The commands of room r1 and the approvals they wait for.
RoomCommands == {ev \in MatrixCommands : ev.room_id = "r1"}

DiscordApprovals ==
    {[PlainDiscordMessage("m1", <<"!matrix", "approve">>) EXCEPT !.channel_id = c] :
        c \in Channels}

\* Room mappings: the bridge and unbridge commands, the approval, and the
\* admin surface with its requests interleaved, for a requestor with the
\* power level.
NextRooms ==
    \/ Login(TRUE)
    \/ \E r \in Rooms, c \in Channels : AdminCreateCheck(FreeAdmin, r, c)
    \/ \E a \in AdminIds : AdminCreateInsert(a)
    \/ \E id \in 1..MaxRoomRows : AdminDeleteBridge(id)
    \/ \E ev \in RoomCommands, pl \in PermittedPowerLevels :
          MatrixEvent(FreeTask, ev, NowBase, pl, TRUE)
    \/ \E msg \in DiscordApprovals : DiscordMessage(msg, TRUE)
    \/ \E f \in FlowIds : BridgeResume(f)

SpecRooms == Init /\ [][NextRooms]_vars

RoomCountSamples == {-1, 0, 1, 2}

InitLimit ==
    /\ Constructed
    /\ rel = NoRel
    /\ admin = [a \in AdminIds |-> IdleAdmin]
    /\ WorkersIdle
    /\ ConfigDefaults
    /\ NothingRendered
    /\ room_count \in RoomCountSamples

\* The room limit: bridge commands against a store the admin surface fills.
NextLimit ==
    \/ Login(TRUE)
    \/ \E r \in Rooms, c \in Channels : AdminCreateBridge(r, c)
    \/ \E id \in 1..MaxRoomRows : AdminDeleteBridge(id)
    \/ \E ev \in RoomCommands, pl \in PermittedPowerLevels :
          MatrixEvent(FreeTask, ev, NowBase, pl, TRUE)
    \/ \E msg \in DiscordApprovals : DiscordMessage(msg, TRUE)
    \/ \E f \in FlowIds : BridgeResume(f)

SpecLimit == InitLimit /\ [][NextLimit]_vars

\* ------------------------------------------- message store calls, stepwise

\* upsert_message_mapping up to its write: the SELECT by discord_message_id.
\* The call runs on a connection of its own, outside any transaction.
UpsertSelect(u, mapping) ==
    /\ upserts[u].pc = "idle"
    /\ upserts' = [upserts EXCEPT ![u] =
                      [pc |-> "selected", mapping |-> Some(mapping),
                       existing |-> GetByDiscordMessageId(mapping.discord_message_id)]]
    /\ inbound' = [NoInbound EXCEPT !.source = "store", !.kind = "upsert_message_mapping",
                      !.event_id = Some(mapping.discord_message_id),
                      !.place = mapping.matrix_room_id,
                      !.content = <<mapping.matrix_event_id>>]
    /\ outcome' = NoOutcome
    /\ notices' = <<>>
    /\ UNCHANGED <<stores, discord_client, matrix_side, discord_sent, provisioning,
                   rel, room_count, admin, managers, in_flight, creating, txn, extras,
                   handled_ok>>

\* The UNIQUE constraint of message_mappings.discord_message_id.
MessageInsertConflicts(id) ==
    \E x \in message_mappings : x.discord_message_id = id

\* upsert_message_mapping from its write on: UPDATE of the row it selected,
\* or INSERT when it selected none. No row is deleted while a call is in
\* flight here, so the selected row is still the row of that discord_message_id.
UpsertWrite(u) ==
    /\ upserts[u].pc = "selected"
    /\ LET mapping == Unwrap(upserts[u].mapping)
       IN /\ inbound' = [NoInbound EXCEPT !.source = "store",
                            !.kind = "upsert_message_mapping",
                            !.event_id = Some(mapping.discord_message_id),
                            !.place = mapping.matrix_room_id,
                            !.content = <<mapping.matrix_event_id>>]
          /\ IF IsSome(upserts[u].existing)
             THEN /\ message_mappings' = UpsertMessageMapping(message_mappings, mapping)
                  /\ outcome' = [NoOutcome EXCEPT !.handler = "upsert_message_mapping",
                                                  !.result = "ok"]
             ELSE IF MessageInsertConflicts(mapping.discord_message_id)
             THEN /\ UNCHANGED message_mappings
                  /\ outcome' = [NoOutcome EXCEPT !.handler = "upsert_message_mapping",
                                                  !.result = "err"]
             ELSE /\ message_mappings' = message_mappings \cup {mapping}
                  /\ outcome' = [NoOutcome EXCEPT !.handler = "upsert_message_mapping",
                                                  !.result = "ok"]
    /\ upserts' = [upserts EXCEPT ![u] = IdleUpsert]
    /\ notices' = <<>>
    /\ UNCHANGED <<room_mappings, next_room_row, processed_events, discord_client,
                   matrix_side, discord_sent, provisioning, rel, room_count, admin,
                   managers, in_flight, creating, txn, extras, handled_ok>>

\* The call slot the next upsert takes: slots are interchangeable.
FreeUpsert ==
    IF upserts[1].pc = "idle" THEN 1 ELSE 2

UpsertMappings ==
    [discord_message_id : DiscordMsgIds, matrix_room_id : Rooms,
     matrix_event_id : {"$e1", "$e2", "$e3"}]

\* Upserts of the message store, interleaved at their statements.
NextUpserts ==
    \/ \E m \in UpsertMappings : UpsertSelect(FreeUpsert, m)
    \/ \E u \in UpsertIds : UpsertWrite(u)

SpecUpserts == Init /\ [][NextUpserts]_vars

\* --------------------------------------- message store calls, one at a time

StoreCall(kind, id) ==
    [NoInbound EXCEPT !.source = "store", !.kind = kind, !.event_id = Some(id)]

\* upsert_message_mapping, run to completion.
StoreUpsert(mapping) ==
    /\ inbound' = [StoreCall("upsert_message_mapping", mapping.discord_message_id)
                      EXCEPT !.place = mapping.matrix_room_id,
                             !.content = <<mapping.matrix_event_id>>]
    /\ message_mappings' = UpsertMessageMapping(message_mappings, mapping)
    /\ outcome' = [NoOutcome EXCEPT !.handler = "upsert_message_mapping", !.result = "ok"]
    /\ notices' = <<>>
    /\ UNCHANGED <<room_mappings, next_room_row, processed_events, discord_client,
                   matrix_side, discord_sent, provisioning, aside, handled_ok>>

\* get_by_discord_message_id; outcome.sent is the matrix_event_id of the row found.
StoreGet(id) ==
    /\ inbound' = StoreCall("get_by_discord_message_id", id)
    /\ outcome' = [NoOutcome EXCEPT
                      !.handler = "get_by_discord_message_id", !.result = "ok",
                      !.sent = IF IsSome(GetByDiscordMessageId(id))
                               THEN Some(Unwrap(GetByDiscordMessageId(id)).matrix_event_id)
                               ELSE None]
    /\ notices' = <<>>
    /\ UNCHANGED <<stores, discord_client, matrix_side, discord_sent, provisioning,
                   aside, handled_ok>>

\* delete_by_discord_message_id
StoreDelete(id) ==
    /\ inbound' = StoreCall("delete_by_discord_message_id", id)
    /\ message_mappings' = DeleteByDiscordMessageId(message_mappings, id)
    /\ outcome' = [NoOutcome EXCEPT !.handler = "delete_by_discord_message_id",
                                    !.result = "ok"]
    /\ notices' = <<>>
    /\ UNCHANGED <<room_mappings, next_room_row, processed_events, discord_client,
                   matrix_side, discord_sent, provisioning, aside, handled_ok>>

\* DatabaseManager::migrate on a file that has the tables: CREATE TABLE IF NOT
\* EXISTS leaves them and their rows.
Migrate(rows) == rows

\* DatabaseManager::new and migrate on the same file: the stores of the new
\* manager read the rows the file holds. The record of the last call stays.
StoreReopen ==
    /\ managers < MaxManagers
    /\ managers' = managers + 1
    /\ message_mappings' = Migrate(message_mappings)
    /\ UNCHANGED <<room_mappings, next_room_row, processed_events, discord_client,
                   matrix_side, notices, discord_sent, provisioning, rel, room_count,
                   admin, upserts, in_flight, creating,
                   txn, extras, history>>

NextStore ==
    \/ \E m \in UpsertMappings : StoreUpsert(m)
    \/ \E id \in DiscordMsgIds : StoreGet(id)
    \/ \E id \in DiscordMsgIds : StoreDelete(id)
    \/ StoreReopen

SpecStore == Init /\ [][NextStore]_vars

\* ------------------------------------------------------------- unbridging

UnbridgeBody == <<"!discord", "unbridge">>
DiscordUnbridgeBody == <<"!matrix", "unbridge">>

MatrixUnbridges ==
    {[PlainMatrixEvent(UnbridgeBody) EXCEPT !.room_id = r] : r \in Rooms}

\* What the Discord gateway delivers here: messages to forward and the
\* unbridge command of a member who may manage the channel.
DiscordTraffic ==
    {[PlainDiscordMessage(id, b) EXCEPT !.channel_id = c] :
        id \in DiscordMsgIds, b \in {Text, DiscordUnbridgeBody}, c \in Channels}

\* Bridged rooms with forwarded messages, unbridged from each side and from
\* the admin surface.
NextUnbridge ==
    \/ Login(TRUE)
    \/ \E r \in Rooms, c \in Channels : AdminCreateBridge(r, c)
    \/ \E id \in 1..MaxRoomRows : AdminDeleteBridge(id)
    \/ \E msg \in DiscordTraffic : DiscordMessage(msg, TRUE)
    \/ \E ev \in MatrixUnbridges, pl \in PermittedPowerLevels :
          MatrixEvent(FreeTask, ev, NowBase, pl, TRUE)

SpecUnbridge == Init /\ [][NextUnbridge]_vars

\* ------------------------------------------------------------ bulk deletes

BulkIds == DiscordMsgIds \cup {"m3"}

\* The id lists of a MESSAGE_DELETE_BULK: every list up to MaxBulkLen, and
\* the lists of five ids in which the first two ids come twice.
BulkSamples ==
    UNION {[1..n -> BulkIds] : n \in 0..MaxBulkLen}
    \cup {<<a, b, a, c, b>> : a, b, c \in BulkIds}

\* Forwarded messages of a bridged channel, deleted in bulk.
NextBulk ==
    \/ Login(TRUE)
    \/ AdminCreateBridge("r1", "c1")
    \/ \E id \in DiscordMsgIds : DiscordMessage(PlainDiscordMessage(id, Text), TRUE)
    \/ \E ids \in BulkSamples, failing \in SUBSET DiscordMsgIds :
          DiscordMessageDeleteBulk("c1", ids, failing)

SpecBulk == Init /\ [][NextBulk]_vars

\* ------------------------------------------------- outbound sends, stepwise

\* What a step of a send call leaves alone.
SendFrame ==
    /\ notices' = <<>>
    /\ UNCHANGED <<stores, our_webhook_ids, webhook_cache, is_logged_in, http, ghosts,
                   redactions, provisioning, rel, room_count, admin, upserts, managers,
                   creating, txn, extras, history>>

\* DiscordClient::send_message_with_metadata_as_user up to its request:
\* send_lock.lock().await returns when the lock is free. Without the Http
\* handle the call goes on to send_message, which waits for the lock the
\* call itself holds.
DiscordSendBegin(t) ==
    /\ in_flight[t].pc = "idle"
    /\ ~send_lock
    /\ send_lock' = TRUE
    /\ in_flight' = [in_flight EXCEPT ![t] =
                        [side |-> "discord", pc |-> IF http THEN "sending" ELSE "stuck"]]
    /\ UNCHANGED <<matrix_sent, discord_sent>>
    /\ SendFrame

\* send_message_with_metadata_as_user from the answer of Discord on: the
\* guard is dropped when the call returns.
DiscordSendReturn(t, send_ok) ==
    /\ in_flight[t] = [side |-> "discord", pc |-> "sending"]
    /\ Len(discord_sent) < MaxDiscordSends
    /\ send_lock' = FALSE
    /\ discord_sent' =
         IF send_ok
         THEN Append(discord_sent,
                     [channel_id |-> "c1", content |-> Text, via |-> "direct",
                      reply_to |-> None, edit_of |-> None,
                      message_id |-> DiscordReturnedSeq[Len(discord_sent) + 1]])
         ELSE discord_sent
    /\ in_flight' = [in_flight EXCEPT ![t] = IdleSend]
    /\ UNCHANGED matrix_sent
    /\ SendFrame

\* MatrixAppservice::send_message_with_metadata up to its request: the call
\* takes no lock before ghost_client.send_event.
MatrixSendBegin(t) ==
    /\ in_flight[t].pc = "idle"
    /\ in_flight' = [in_flight EXCEPT ![t] = [side |-> "matrix", pc |-> "sending"]]
    /\ UNCHANGED <<matrix_sent, discord_sent, send_lock>>
    /\ SendFrame

\* send_message_with_metadata from the answer of the homeserver on.
MatrixSendReturn(t, send_ok) ==
    /\ in_flight[t] = [side |-> "matrix", pc |-> "sending"]
    /\ Len(matrix_sent) < MaxSends
    /\ matrix_sent' =
         IF send_ok
         THEN Append(matrix_sent,
                     MatrixSendRecord("r1", <<"u1">>, Text, None, None))
         ELSE matrix_sent
    /\ in_flight' = [in_flight EXCEPT ![t] = IdleSend]
    /\ UNCHANGED <<discord_sent, send_lock>>
    /\ SendFrame

\* Sends of both sides, made by handlers that run concurrently.
NextSends ==
    \/ \E got_http \in BOOLEAN : Login(got_http)
    \/ \E t \in SendTasks : DiscordSendBegin(t)
    \/ \E t \in SendTasks, ok \in BOOLEAN : DiscordSendReturn(t, ok)
    \/ \E t \in SendTasks : MatrixSendBegin(t)
    \/ \E t \in SendTasks, ok \in BOOLEAN : MatrixSendReturn(t, ok)

SpecSends == Init /\ [][NextSends]_vars

\* A send that waits for the answer of Discord gets it: the request ends or
\* times out in the HTTP client.
SendsFairness ==
    \A t \in SendTasks : WF_vars(\E ok \in BOOLEAN : DiscordSendReturn(t, ok))

SpecSendsLive == SpecSends /\ SendsFairness

\* ------------------------------------------- gateway callbacks, stepwise

\* The inbound record of a gateway message.
DiscordInbound(msg) ==
    [NoInbound EXCEPT !.source = "discord", !.kind = "message",
                      !.event_id = Some(msg.id), !.place = msg.channel_id,
                      !.sender = msg.author_id, !.content = msg.content,
                      !.ts = Some(msg.timestamp), !.now = msg.now]

\* ReadySignalHandler::message for a message of a bridged channel, up to the
\* request of send_to_matrix_message: the room is looked up, the ghost is
\* registered, and the callback waits for the homeserver.
DiscordCreateBegin(t, msg) ==
    /\ is_logged_in
    /\ creating[t].pc = "idle"
    /\ IsSome(GetRoomByDiscordChannel(msg.channel_id))
    /\ inbound' = DiscordInbound(msg)
    /\ outcome' = NoOutcome
    /\ ghosts' = EnsureGhostUserRegistered(ghosts, msg.author_id,
                                           Some(GetUser(msg.author_id).username))
    /\ creating' = [creating EXCEPT ![t] =
                       [pc |-> "sending", id |-> msg.id, sender |-> msg.author_id,
                        room |-> Unwrap(GetRoomByDiscordChannel(msg.channel_id)).matrix_room_id]]
    /\ notices' = <<>>
    /\ UNCHANGED <<stores, discord_client, matrix_sent, redactions, discord_sent,
                   provisioning, rel, room_count, admin, upserts, managers, in_flight,
                   txn, extras, handled_ok>>

\* The same callback from the answer of the homeserver on: the mapping of
\* the message is upserted and the callback returns.
DiscordCreateFinish(t, send_ok) ==
    /\ creating[t].pc = "sending"
    /\ Len(matrix_sent) < MaxSends
    /\ inbound' = DiscordInbound(PlainDiscordMessage(creating[t].id, Text))
    /\ LET sent == MatrixSendRecord(creating[t].room, creating[t].sender, Text, None, None)
       IN IF send_ok
          THEN /\ matrix_sent' = Append(matrix_sent, sent)
               /\ message_mappings' =
                    UpsertMessageMapping(message_mappings,
                        [discord_message_id |-> creating[t].id,
                         matrix_room_id |-> creating[t].room,
                         matrix_event_id |-> sent.event_id])
               /\ outcome' = [NoOutcome EXCEPT
                                 !.handler = "handle_discord_message_with_context",
                                 !.result = "ok", !.sent = Some(sent.event_id),
                                 !.source_id = Some(creating[t].id)]
          ELSE /\ UNCHANGED <<matrix_sent, message_mappings>>
               /\ outcome' = [NoOutcome EXCEPT
                                 !.handler = "handle_discord_message_with_context",
                                 !.result = "err"]
    /\ creating' = [creating EXCEPT ![t] = IdleCreate]
    /\ RecordHandled(inbound')
    /\ notices' = <<>>
    /\ UNCHANGED <<room_mappings, next_room_row, processed_events, discord_client, ghosts,
                   redactions, discord_sent, provisioning, rel, room_count, admin, upserts,
                   managers, in_flight, txn, extras>>

\* The callback slot the next message takes: slots are interchangeable.
FreeCreate ==
    IF creating[1].pc = "idle" THEN 1 ELSE 2

\* The gateway callbacks of a bridged channel, each on a task of its own.
NextOrder ==
    \/ Login(TRUE)
    \/ AdminCreateBridge("r1", "c1")
    \/ \E id \in DiscordMsgIds : DiscordCreateBegin(FreeCreate, PlainDiscordMessage(id, Text))
    \/ \E t \in CreateTasks, ok \in BOOLEAN : DiscordCreateFinish(t, ok)
    \/ \E id \in DiscordMsgIds, ok \in BOOLEAN : DiscordMessageDelete("c1", id, ok)

SpecOrder == Init /\ [][NextOrder]_vars

\* ------------------------------------------- transactions, event by event

\* The for loop of on_transaction after one event, as a loop that used ? on
\* process_event would leave it: the first error is returned.
TxnAfterEventAborting(t, result) ==
    IF result = "err"
    THEN [t EXCEPT !.results = Append(@, result), !.returned = "Err"]
    ELSE IF result \in {"blocked", "waiting"}
    THEN [t EXCEPT !.results = Append(@, result)]
    ELSE [t EXCEPT !.pos = @ + 1, !.results = Append(@, result)]

\* The for loop of on_transaction after one event: an Err of process_event
\* is logged and the loop goes to the next event. A handler that never
\* returns keeps the loop where it is, and so does one that waits in
\* ask_bridge_permission, until it returns.
TxnAfterEvent(t, result) ==
    IF result \in {"blocked", "waiting"}
    THEN [t EXCEPT !.results = Append(@, result)]
    ELSE [t EXCEPT !.pos = @ + 1, !.results = Append(@, result)]

\* on_transaction is called with the events of a transaction.
TxnBegin(events) ==
    /\ txn.pos = 0 \/ txn.returned = "Ok"
    /\ txn' = [events |-> events, pos |-> 1, results |-> <<>>, returned |-> "none"]
    /\ inbound' = [NoInbound EXCEPT !.source = "matrix", !.kind = "transaction"]
    /\ outcome' = NoOutcome
    /\ notices' = <<>>
    /\ UNCHANGED <<stores, discord_client, matrix_side, discord_sent, provisioning,
                   rel, room_count, admin, workers, handled_ok>>

\* One turn of the for loop: an event without room_id, sender or type is
\* passed over, any other goes through process_event.
TxnStep(now, power_levels, send_ok) ==
    /\ txn.returned = "none"
    /\ txn.pos \in 1..Len(txn.events)
    /\ Len(txn.results) < txn.pos
    /\ LET item == txn.events[txn.pos]
       IN IF ~item.raw_ok
          THEN /\ inbound' = [NoInbound EXCEPT !.source = "matrix", !.kind = "malformed"]
               /\ outcome' = NoOutcome
               /\ notices' = <<>>
               /\ txn' = TxnAfterEvent(txn, "skipped")
               /\ UNCHANGED <<stores, discord_client, matrix_side, discord_sent,
                              provisioning, rel, room_count, admin, workers, handled_ok>>
          ELSE /\ ProcessEvent(FreeTask, item.ev, now, power_levels, send_ok)
               /\ txn' = TxnAfterEvent(txn, outcome'.result)

\* process_event returns for a bridge command whose request has been
\* answered or has timed out: the loop goes to the next event.
TxnHandlerReturns ==
    /\ txn.returned = "none"
    /\ txn.pos \in 1..Len(txn.events)
    /\ Len(txn.results) = txn.pos
    /\ txn.results[txn.pos] = "waiting"
    /\ \A f \in FlowIds : flows[f].pc = "idle"
    /\ txn' = [txn EXCEPT !.pos = @ + 1, !.results[txn.pos] = "ok"]
    /\ UNCHANGED <<stores, discord_client, matrix_side, notices, discord_sent, provisioning,
                   rel, room_count, admin, workers, history>>

\* The loop is through: on_transaction returns Ok(()).
TxnReturn ==
    /\ txn.returned = "none"
    /\ txn.pos = Len(txn.events) + 1
    /\ txn' = [txn EXCEPT !.returned = "Ok"]
    /\ UNCHANGED <<stores, discord_client, matrix_side, notices, discord_sent, provisioning,
                   rel, room_count, admin, workers, history>>

TxnItems ==
    {[raw_ok |-> ok, ev |-> PlainMatrixEvent(Text)] : ok \in BOOLEAN}

TxnSamples == UNION {[1..n -> TxnItems] : n \in 1..MaxTxnLen}

BulkFailureSamples == {<<"m1", "m2">>, <<"m2", "m3", "m1">>}

\* Handlers that fail: transactions whose sends Discord refuses, and bulk
\* deletes whose redactions the homeserver refuses.
NextFailures ==
    \/ Login(TRUE)
    \/ AdminCreateBridge("r1", "c1")
    \/ \E events \in TxnSamples : TxnBegin(events)
    \/ \E pl \in PermittedPowerLevels, ok \in BOOLEAN : TxnStep(NowBase, pl, ok)
    \/ TxnReturn
    \/ \E id \in DiscordMsgIds : DiscordMessage(PlainDiscordMessage(id, Text), TRUE)
    \/ \E ids \in BulkFailureSamples, failing \in SUBSET DiscordMsgIds :
          DiscordMessageDeleteBulk("c1", ids, failing)

SpecFailures == Init /\ [][NextFailures]_vars

\* Transactions that carry a bridge command for channel c1 and a message.
PendingTxns ==
    LET cmd == [raw_ok |-> TRUE,
                ev |-> [PlainMatrixEvent(<<"!discord", "bridge", "g1", "c1">>)
                           EXCEPT !.event_id = Some("$a2")]]
        msg == [raw_ok |-> TRUE, ev |-> PlainMatrixEvent(Text)]
    IN {<<cmd, msg>>, <<msg, cmd>>, <<cmd>>, <<cmd, cmd>>}

\* A bridge request made inside a transaction, and what resolves it.
NextPending ==
    \/ Login(TRUE)
    \/ \E events \in PendingTxns : TxnBegin(events)
    \/ \E pl \in PermittedPowerLevels : TxnStep(NowBase, pl, TRUE)
    \/ TxnHandlerReturns
    \/ TxnReturn
    \/ \E msg \in DiscordCommands : DiscordMessage(msg, TRUE)
    \/ \E f \in FlowIds : BridgeResume(f)
    \/ \E c \in Channels : DeadlineElapsed(c)

\* The loop of on_transaction runs on whenever it can, the deadline of
\* ask_bridge_permission is reached when nobody answers, and the handler that
\* waited goes on; when the guild answers is left open.
PendingFairness ==
    /\ WF_vars(\E pl \in PermittedPowerLevels : TxnStep(NowBase, pl, TRUE))
    /\ WF_vars(TxnHandlerReturns)
    /\ WF_vars(\E c \in Channels : DeadlineElapsed(c))
    /\ WF_vars(\E f \in FlowIds : BridgeResume(f))

SpecPending == Init /\ [][NextPending]_vars /\ PendingFairness

\* ------------------------------------------------------ start and shutdown

Min(a, b) == IF a <= b THEN a ELSE b

\* The update of retry_seconds in DiscordClient::start, as a loop without
\* the cap would make it.
NextRetrySecondsUncapped(retry_seconds) == retry_seconds * 2

\* The update of retry_seconds in DiscordClient::start.
NextRetrySeconds(retry_seconds) == Min(retry_seconds * 2, MAX_LOGIN_RETRY_SECONDS)

LoginFailures == {"build_failed", "exited_before_ready", "timed_out"}

\* A turn of the loop of DiscordClient::start in which login returns Err:
\* the loop sleeps retry_seconds and doubles it up to the cap.
StartLoginFails(cause) ==
    /\ lifecycle.pc = "starting"
    /\ ~is_logged_in
    /\ lifecycle.retries < MaxRetries
    /\ lifecycle' = [lifecycle EXCEPT !.slept = lifecycle.retry_seconds,
                                      !.retry_seconds = NextRetrySeconds(@),
                                      !.retries = @ + 1]
    /\ inbound' = NoInbound
    /\ outcome' = [NoOutcome EXCEPT !.handler = "login", !.result = "err",
                                    !.answer = cause]
    /\ notices' = <<>>
    /\ UNCHANGED <<stores, discord_client, matrix_side, discord_sent, provisioning,
                   rel, room_count, admin, in_progress, txn, gateway_extras, handled_ok>>

\* The turn in which login returns Ok: start returns.
StartLoginSucceeds(got_http) ==
    /\ lifecycle.pc = "starting"
    /\ ~is_logged_in
    /\ is_logged_in' = TRUE
    /\ http' = got_http
    /\ lifecycle' = [lifecycle EXCEPT !.pc = "running"]
    /\ inbound' = NoInbound
    /\ outcome' = [NoOutcome EXCEPT !.handler = "login", !.result = "ok"]
    /\ notices' = <<>>
    /\ UNCHANGED <<stores, our_webhook_ids, webhook_cache, send_lock, matrix_side,
                   discord_sent, provisioning, rel, room_count, admin, in_progress, txn,
                   gateway_extras, handled_ok>>

\* main from the end of its select: the web and bridge tasks are aborted,
\* DiscordClient::stop aborts the gateway task, and main returns without
\* waiting for a handler. The runtime ends with main, and a callback that
\* waits for the homeserver is dropped where it waits.
Shutdown ==
    /\ lifecycle.pc # "stopped"
    /\ lifecycle' = [lifecycle EXCEPT !.pc = "stopped"]
    /\ is_logged_in' = FALSE
    /\ creating' = [t \in CreateTasks |->
                       IF creating[t].pc = "sending"
                       THEN [creating[t] EXCEPT !.pc = "cancelled"]
                       ELSE creating[t]]
    /\ inbound' = NoInbound
    /\ outcome' = [NoOutcome EXCEPT !.handler = "stop", !.result = "ok"]
    /\ notices' = <<>>
    /\ UNCHANGED <<stores, our_webhook_ids, webhook_cache, http, send_lock, matrix_side,
                   discord_sent, provisioning, rel, room_count, admin, upserts, managers,
                   in_flight, txn, gateway_extras, handled_ok>>

\* The gateway task spawned by login ends: start_autosharded returns, the
\* task logs "discord gateway stopped" and is gone. login_state is not
\* touched and start has returned.
GatewayExits ==
    /\ lifecycle.pc = "running"
    /\ lifecycle' = [lifecycle EXCEPT !.pc = "gateway_exited"]
    /\ inbound' = NoInbound
    /\ outcome' = [NoOutcome EXCEPT !.handler = "gateway_task", !.result = "err"]
    /\ notices' = <<>>
    /\ UNCHANGED <<stores, discord_client, matrix_side, discord_sent, provisioning,
                   rel, room_count, admin, in_progress, txn, gateway_extras, handled_ok>>

\* The life of the process: the login loop, the callbacks of a bridged
\* channel, and the shutdown.
NextLifecycle ==
    \/ \E cause \in LoginFailures : StartLoginFails(cause)
    \/ \E got_http \in BOOLEAN : StartLoginSucceeds(got_http)
    \/ lifecycle.pc # "stopped" /\ AdminCreateBridge("r1", "c1")
    \/ /\ lifecycle.pc = "running"
       /\ \E id \in DiscordMsgIds :
              DiscordCreateBegin(FreeCreate, PlainDiscordMessage(id, Text))
    \/ \E t \in CreateTasks, ok \in BOOLEAN : DiscordCreateFinish(t, ok)
    \/ GatewayExits
    \/ Shutdown

SpecLifecycle == Init /\ [][NextLifecycle]_vars

\* The loop of DiscordClient::start keeps turning: a login attempt ends.
LoginFairness ==
    WF_vars(\/ \E cause \in LoginFailures : StartLoginFails(cause)
            \/ \E got_http \in BOOLEAN : StartLoginSucceeds(got_http))

SpecLifecycleLive == SpecLifecycle /\ LoginFairness

\* ------------------------------------------------- presence and typing

DISCORD_TYPING_TIMEOUT_MS == 4000

\* OnlineStatus of the gateway; "Other" is the wildcard arm of the match.
OnlineStatuses == {"Online", "DoNotDisturb", "Idle", "Offline", "Invisible", "Other"}

\* ReadySignalHandler::presence_update: the match on new_data.status
PresenceState(status) ==
    CASE status = "Online" -> "Online"
      [] status = "DoNotDisturb" -> "Dnd"
      [] status = "Idle" -> "Idle"
      [] OTHER -> "Offline"

EnqueueUserAppending(queue, presence) == Append(queue, presence)

\* PresenceHandler::enqueue_user: the entry of a queued user is replaced where
\* it stands, a new user goes to the back.
EnqueueUser(queue, presence) ==
    IF \E i \in 1..Len(queue) : queue[i].user_id = presence.user_id
    THEN [i \in 1..Len(queue) |->
             IF queue[i].user_id = presence.user_id THEN presence ELSE queue[i]]
    ELSE Append(queue, presence)

\* MatrixPresenceState of a queued state, and the string set_presence sends.
MatrixPresence(state) ==
    CASE state = "Online" -> "online"
      [] state = "Dnd" -> "online"
      [] state = "Idle" -> "unavailable"
      [] OTHER -> "offline"

GatewayFrame ==
    /\ notices' = <<>>
    /\ UNCHANGED <<stores, discord_client, matrix_sent, redactions, discord_sent,
                   provisioning, rel, room_count, admin, in_progress, txn, handled_ok>>

\* ReadySignalHandler::presence_update -> BridgeCore::enqueue_discord_presence
DiscordPresenceUpdate(p) ==
    /\ is_logged_in
    /\ inbound' = [NoInbound EXCEPT !.source = "discord", !.kind = "presence_update",
                      !.sender = p.user_id, !.bot = p.bot, !.place = p.status,
                      !.content = p.activities]
    /\ presence_queue' =
           IF p.bot
           THEN presence_queue
           ELSE EnqueueUser(presence_queue,
                            [user_id |-> p.user_id, username |-> p.name,
                             state |-> PresenceState(p.status),
                             activities |-> p.activities])
    /\ outcome' = [NoOutcome EXCEPT !.handler = "presence_update",
                                    !.result = IF p.bot THEN "none" ELSE "ok"]
    /\ UNCHANGED <<ghosts, lifecycle, disable_typing_notifications, wire,
                   disable_deletion_forwarding, webhooks>>
    /\ GatewayFrame

\* PresenceHandler::process_next, one tick of the loop of BridgeCore::start
PresenceProcessNext(send_ok) ==
    /\ Len(presence_queue) > 0
    /\ LET head == Head(presence_queue)
       IN /\ presence_queue' = Tail(presence_queue)
          /\ ghosts' = EnsureGhostUserRegistered(ghosts, head.user_id, head.username)
          /\ inbound' = [NoInbound EXCEPT !.source = "ticker", !.kind = "presence",
                                          !.sender = head.user_id]
          /\ outcome' = [NoOutcome EXCEPT
                            !.handler = "process_next",
                            !.result = IF send_ok THEN "ok" ELSE "err",
                            !.presence = Some([discord_user_id |-> head.user_id,
                                               presence |-> MatrixPresence(head.state),
                                               status_message |-> head.activities])]
    /\ UNCHANGED <<lifecycle, disable_typing_notifications, wire,
                   disable_deletion_forwarding, webhooks>>
    /\ GatewayFrame

\* bridge::logic::should_forward_discord_typing
ShouldForwardDiscordTyping(disabled, room_mapping) ==
    ~disabled /\ IsSome(room_mapping)

BuildDiscordTypingRequestStopping(matrix_room_id, discord_user_id) ==
    [room_id |-> matrix_room_id, discord_user_id |-> discord_user_id,
     typing |-> FALSE, timeout_ms |-> Some(DISCORD_TYPING_TIMEOUT_MS)]

\* build_discord_typing_request
BuildDiscordTypingRequest(matrix_room_id, discord_user_id) ==
    [room_id |-> matrix_room_id, discord_user_id |-> discord_user_id,
     typing |-> TRUE, timeout_ms |-> Some(DISCORD_TYPING_TIMEOUT_MS)]

\* ReadySignalHandler::typing_start -> BridgeCore::handle_discord_typing
DiscordTypingStart(discord_channel_id, discord_sender_id, send_ok) ==
    /\ is_logged_in
    /\ inbound' = [NoInbound EXCEPT !.source = "discord", !.kind = "typing_start",
                      !.place = discord_channel_id, !.sender = discord_sender_id]
    /\ LET room_mapping == GetRoomByDiscordChannel(discord_channel_id)
       IN IF disable_typing_notifications
          THEN /\ ghosts' = ghosts
               /\ outcome' = [NoOutcome EXCEPT !.handler = "handle_discord_typing",
                                               !.result = "ok"]
          ELSE IF ~IsSome(room_mapping)
          THEN /\ ghosts' = ghosts
               /\ outcome' = [NoOutcome EXCEPT !.handler = "handle_discord_typing",
                                               !.result = "ok"]
          ELSE /\ ghosts' = EnsureGhostUserRegistered(ghosts, discord_sender_id, None)
               /\ outcome' = [NoOutcome EXCEPT
                                 !.handler = "handle_discord_typing",
                                 !.result = IF send_ok THEN "ok" ELSE "err",
                                 !.typing = Some(BuildDiscordTypingRequest(
                                               Unwrap(room_mapping).matrix_room_id,
                                               discord_sender_id))]
    /\ UNCHANGED <<presence_queue, lifecycle, disable_typing_notifications, wire,
                   disable_deletion_forwarding, webhooks>>
    /\ GatewayFrame

\* A presence update of a user, and the ways an update departs from it.
PlainPresence(user_id) ==
    [user_id |-> user_id, bot |-> FALSE, status |-> "Online", activities |-> <<>>,
     name |-> Some(<<"user_">> \o user_id)]

PresenceShapes(user_id) ==
    LET p == PlainPresence(user_id)
    IN {[p EXCEPT !.status = st] : st \in OnlineStatuses}
       \cup {[p EXCEPT !.bot = TRUE, !.status = "Idle"],
             [p EXCEPT !.activities = <<"Playing">>]}

PresenceUpdates == UNION {PresenceShapes(u) : u \in DiscordUsers}

\* The bridge with either setting of disable_typing_notifications.
InitGateway ==
    /\ Constructed
    /\ WorkersIdle
    /\ rel = NoRel
    /\ room_count = RoomCountLimit
    /\ admin = [a \in AdminIds |-> IdleAdmin]
    /\ disable_typing_notifications \in BOOLEAN
    /\ disable_deletion_forwarding = FALSE
    /\ NothingRendered

NextGateway ==
    \/ Login(TRUE)
    \/ AdminCreateBridge("r1", "c1")
    \/ DiscordMessage(PlainDiscordMessage("m1", Text), TRUE)
    \/ \E p \in PresenceUpdates : DiscordPresenceUpdate(p)
    \/ \E ok \in BOOLEAN : PresenceProcessNext(ok)
    \/ \E c \in Channels, u \in DiscordUsers, ok \in BOOLEAN : DiscordTypingStart(c, u, ok)

SpecGateway == InitGateway /\ [][NextGateway]_vars

\* ------------------------------------------------- rendering and parsing

\* MessageFlow::parse_matrix_event, the three fields read from the content of
\* an m.room.message event: the body is that of m.new_content when the event
\* is an edit, reply_to is m.relates_to.m.in_reply_to.event_id, edit_of is
\* m.relates_to.event_id when rel_type is m.replace.
ParseMatrixContent(content) ==
    LET relates == content.relates_to
        is_rel(t) == IsSome(relates) /\ Unwrap(relates).rel_type = t
    IN [body |-> IF IsSome(content.new_content)
                 THEN Unwrap(content.new_content).body
                 ELSE content.body,
        reply_to |-> IF is_rel("m.in_reply_to")
                     THEN Some(Unwrap(relates).event_id) ELSE None,
        edit_of |-> IF is_rel("m.replace")
                    THEN Some(Unwrap(relates).event_id) ELSE None]

\* BridgeCore::send_to_matrix_message down to the content handed to send_event
RenderMatrixMessage ==
    /\ wire.pc = "outbound"
    /\ wire' = [wire EXCEPT !.pc = "rendered",
                            !.content = Some(MatrixWireContent(RenderBody(wire.outbound),
                                                               wire.outbound.reply_to,
                                                               wire.outbound.edit_of))]
    /\ UNCHANGED <<stores, discord_client, matrix_side, notices, discord_sent, provisioning,
                   history, rel, room_count, admin, in_progress, txn, lifecycle,
                   presence_queue, disable_typing_notifications,
                   disable_deletion_forwarding, webhooks>>

\* The homeserver delivers the event back and it is parsed.
ParseMatrixMessage ==
    /\ wire.pc = "rendered"
    /\ wire' = [wire EXCEPT !.pc = "parsed",
                            !.parsed = Some(ParseMatrixContent(Unwrap(wire.content)))]
    /\ UNCHANGED <<stores, discord_client, matrix_side, notices, discord_sent, provisioning,
                   history, rel, room_count, admin, in_progress, txn, lifecycle,
                   presence_queue, disable_typing_notifications,
                   disable_deletion_forwarding, webhooks>>

WireBodies == {Text, <<"hello">>, <<"* ", "hello">>}
WireEventIds == {"$e1", "$e2", "$e3"}

WireOutbounds ==
    [body : WireBodies, reply_to : {None} \cup {Some(e) : e \in WireEventIds},
     edit_of : {None} \cup {Some(e) : e \in WireEventIds}, attachments : {<<>>}]

InitRoundTrip ==
    /\ Constructed
    /\ rel = NoRel
    /\ room_count = RoomCountLimit
    /\ admin = [a \in AdminIds |-> IdleAdmin]
    /\ WorkersIdle
    /\ ConfigDefaults
    /\ wire \in [pc : {"outbound"}, outbound : WireOutbounds, content : {None},
                 parsed : {None}]

NextRoundTrip == RenderMatrixMessage \/ ParseMatrixMessage

SpecRoundTrip == InitRoundTrip /\ [][NextRoundTrip]_vars

\* Matrix messages forwarded to a channel that may already have its webhook.
NextForward ==
    \/ Login(TRUE)
    \/ AdminCreateBridge("r1", "c1")
    \/ \E ok \in BOOLEAN : SendAsUser("c1", TRUE, ok)
    \/ \E ev \in MatrixMessages, ok \in BOOLEAN :
          MatrixEvent(1, ev, NowBase, [ok |-> FALSE, user |-> None, users_default |-> None], ok)

SpecForward == Init /\ [][NextForward]_vars

\* What get_room_state_event can answer for m.room.power_levels: no answer,
\* the sender listed in users, or only users_default, or neither.
PermissionSamples ==
    {[ok |-> FALSE, user |-> None, users_default |-> None]}
    \cup [ok : {TRUE}, user : {None, Some(49), Some(50)},
          users_default : {None, Some(49), Some(50), Some(100)}]

PermissionCommands ==
    {[PlainMatrixEvent(b) EXCEPT !.event_id = Some(e)] :
        b \in {<<"!discord", "bridge", "g1", "c2">>, <<"!discord", "unbridge">>},
        e \in {"$a1", "$a2"}}

\* Commands of senders of every standing, in a room that may be bridged.
NextPermission ==
    \/ Login(TRUE)
    \/ AdminCreateBridge("r1", "c1")
    \/ \E ev \in PermissionCommands, pl \in PermissionSamples :
          MatrixEvent(FreeTask, ev, NowBase, pl, TRUE)
    \/ \E f \in FlowIds : BridgeResume(f)
    \/ \E c \in Channels : DeadlineElapsed(c)

SpecPermission == Init /\ [][NextPermission]_vars

\* ---------------------------------------------------------------- webhooks

\* send_lock, as a lock that every caller gets at once would be.
SendLockFreeAlways(lock) == TRUE

\* self.send_lock.lock().await returns when nobody holds the guard.
SendLockFree(lock) == ~lock

WebhookFrame ==
    /\ notices' = <<>>
    /\ UNCHANGED <<stores, is_logged_in, http, matrix_side, provisioning, rel, room_count,
                   admin, in_progress, txn, lifecycle, presence_queue,
                   disable_typing_notifications, wire, disable_deletion_forwarding,
                   history>>

WebhookCallAt(t, pc) == [webhooks EXCEPT !.calls[t].pc = pc]

\* send_message_with_metadata_as_user with a username and enable_webhook, up
\* to its call of get_or_create_webhook: the guard of send_lock is taken and
\* the Http handle is there.
SendAsUserBegin(t, channel) ==
    /\ webhooks.calls[t].pc = "idle"
    /\ http
    /\ SendLockFree(send_lock)
    /\ send_lock' = TRUE
    /\ webhooks' = [webhooks EXCEPT !.calls[t] = [pc |-> "lookup", channel |-> channel]]
    /\ UNCHANGED <<our_webhook_ids, webhook_cache, discord_sent>>
    /\ WebhookFrame

\* get_or_create_webhook: the read of webhook_cache. A hit returns the cached
\* WebhookInfo.
GetOrCreateWebhookLookup(t) ==
    /\ webhooks.calls[t].pc = "lookup"
    /\ webhooks' = WebhookCallAt(t, IF IsSome(webhook_cache[webhooks.calls[t].channel])
                                    THEN "send_via_webhook" ELSE "fetch")
    /\ UNCHANGED <<our_webhook_ids, webhook_cache, discord_sent, send_lock>>
    /\ WebhookFrame

\* get_or_create_webhook: channel.webhooks(http). ok: whether Discord answers.
\* A webhook of the configured name is taken if it has a token.
GetOrCreateWebhookFetch(t, ok) ==
    /\ webhooks.calls[t].pc = "fetch"
    /\ LET token == webhooks.remote[webhooks.calls[t].channel].token
       IN webhooks' = WebhookCallAt(t, IF ~ok THEN "send_direct_message"
                                       ELSE IF token = "none" THEN "create"
                                       ELSE IF token = "missing" THEN "send_direct_message"
                                       ELSE "record_id")
    /\ UNCHANGED <<our_webhook_ids, webhook_cache, discord_sent, send_lock>>
    /\ WebhookFrame

WebhookCreateResults == {"failed", "created", "created_without_token"}

\* get_or_create_webhook: channel.create_webhook.
GetOrCreateWebhookCreate(t, result) ==
    /\ webhooks.calls[t].pc = "create"
    /\ LET channel == webhooks.calls[t].channel
           at_discord == webhooks.remote[channel]
       IN webhooks' =
            IF result = "failed" THEN WebhookCallAt(t, "send_direct_message")
            ELSE [webhooks EXCEPT
                     !.remote[channel] =
                         [created |-> at_discord.created + 1,
                          token |-> IF result = "created" THEN "present" ELSE "missing"],
                     !.calls[t].pc = IF result = "created" THEN "record_id"
                                     ELSE "send_direct_message"]
    /\ UNCHANGED <<our_webhook_ids, webhook_cache, discord_sent, send_lock>>
    /\ WebhookFrame

\* get_or_create_webhook: our_webhook_ids.write().await.insert(info.id)
GetOrCreateWebhookRecordId(t) ==
    /\ webhooks.calls[t].pc = "record_id"
    /\ our_webhook_ids' = GetOrCreateWebhookIds(webhooks.calls[t].channel)
    /\ webhooks' = WebhookCallAt(t, "record_cache")
    /\ UNCHANGED <<webhook_cache, discord_sent, send_lock>>
    /\ WebhookFrame

\* get_or_create_webhook: webhook_cache.write().await.insert(channel, info)
GetOrCreateWebhookRecordCache(t) ==
    /\ webhooks.calls[t].pc = "record_cache"
    /\ webhook_cache' = [webhook_cache EXCEPT ![webhooks.calls[t].channel] =
                            Some(WebhookOf(webhooks.calls[t].channel))]
    /\ webhooks' = WebhookCallAt(t, "send_via_webhook")
    /\ UNCHANGED <<our_webhook_ids, discord_sent, send_lock>>
    /\ WebhookFrame

WebhookSendRecord(channel, via) ==
    [channel_id |-> channel, content |-> Text, via |-> via, reply_to |-> None,
     edit_of |-> None, message_id |-> DiscordReturnedSeq[Len(discord_sent) + 1]]

\* send_via_webhook with the WebhookInfo that get_or_create_webhook returned;
\* the guard of send_lock is dropped when the call returns.
SendViaWebhook(t, send_ok) ==
    /\ webhooks.calls[t].pc = "send_via_webhook"
    /\ Len(discord_sent) < MaxDiscordSends
    /\ discord_sent' =
         IF send_ok
         THEN Append(discord_sent,
                     WebhookSendRecord(webhooks.calls[t].channel,
                                       WebhookOf(webhooks.calls[t].channel)))
         ELSE discord_sent
    /\ send_lock' = FALSE
    /\ webhooks' = [webhooks EXCEPT !.calls[t] = IdleWebhookCall]
    /\ UNCHANGED <<our_webhook_ids, webhook_cache>>
    /\ WebhookFrame

\* The fall back of send_message_with_metadata_as_user when
\* get_or_create_webhook returned Err: send_direct_message.
SendDirectMessage(t, send_ok) ==
    /\ webhooks.calls[t].pc = "send_direct_message"
    /\ Len(discord_sent) < MaxDiscordSends
    /\ discord_sent' =
         IF send_ok
         THEN Append(discord_sent, WebhookSendRecord(webhooks.calls[t].channel, "direct"))
         ELSE discord_sent
    /\ send_lock' = FALSE
    /\ webhooks' = [webhooks EXCEPT !.calls[t] = IdleWebhookCall]
    /\ UNCHANGED <<our_webhook_ids, webhook_cache>>
    /\ WebhookFrame

\* Handlers that send to Discord as a Matrix user, running concurrently.
NextWebhooks ==
    \/ Login(TRUE)
    \/ \E t \in WebhookTasks, c \in Channels : SendAsUserBegin(t, c)
    \/ \E t \in WebhookTasks : GetOrCreateWebhookLookup(t)
    \/ \E t \in WebhookTasks, ok \in BOOLEAN : GetOrCreateWebhookFetch(t, ok)
    \/ \E t \in WebhookTasks, r \in WebhookCreateResults : GetOrCreateWebhookCreate(t, r)
    \/ \E t \in WebhookTasks : GetOrCreateWebhookRecordId(t)
    \/ \E t \in WebhookTasks : GetOrCreateWebhookRecordCache(t)
    \/ \E t \in WebhookTasks, ok \in BOOLEAN : SendViaWebhook(t, ok)
    \/ \E t \in WebhookTasks, ok \in BOOLEAN : SendDirectMessage(t, ok)

SpecWebhooks == Init /\ [][NextWebhooks]_vars

\* --------------------------------------------------------------- deletions

\* The bridge with either setting of disable_deletion_forwarding.
InitDeletion ==
    /\ Constructed
    /\ WorkersIdle
    /\ rel = NoRel
    /\ room_count = RoomCountLimit
    /\ admin = [a \in AdminIds |-> IdleAdmin]
    /\ disable_typing_notifications = FALSE
    /\ disable_deletion_forwarding \in BOOLEAN
    /\ NothingRendered

\* Messages of a bridged channel and their deletion.
NextDeletion ==
    \/ Login(TRUE)
    \/ AdminCreateBridge("r1", "c1")
    \/ \E m \in DiscordMsgIds, ok \in BOOLEAN :
          DiscordMessage(PlainDiscordMessage(m, Text), ok)
    \/ \E m \in DiscordMsgIds, ok \in BOOLEAN : DiscordMessageDelete("c1", m, ok)

SpecDeletion == InitDeletion /\ [][NextDeletion]_vars

\* ---------------------------------------------------- commands and messages

\* Commands and plain messages, in the bridged room and in another one.
CommandOrChatEvents ==
    {[PlainMatrixEvent(b) EXCEPT !.room_id = r] :
        b \in {Text, <<"!discord", "unbridge">>}, r \in Rooms}

CommandOrChatMessages ==
    {[PlainDiscordMessage("m1", c) EXCEPT !.channel_id = ch, !.permissions = perms] :
        c \in {Text, <<"!matrix", "unbridge">>}, ch \in Channels,
        perms \in {{}, {"MANAGE_CHANNELS"}}}

CommandOrChatUpdates ==
    {[PlainDiscordUpdate("m1") EXCEPT !.channel_id = ch, !.content = Some(c)] :
        ch \in Channels, c \in {Text, <<"!matrix", "approve">>}}

NextCommands ==
    \/ Login(TRUE)
    \/ AdminCreateBridge("r1", "c1")
    \/ \E ev \in CommandOrChatEvents, pl \in CommandPowerLevels, ok \in BOOLEAN :
          MatrixEvent(1, ev, NowBase, pl, ok)
    \/ \E msg \in CommandOrChatMessages, ok \in BOOLEAN : DiscordMessage(msg, ok)
    \/ \E upd \in CommandOrChatUpdates, ok \in BOOLEAN : DiscordMessageUpdate(upd, ok)

SpecCommands == Init /\ [][NextCommands]_vars

\* ------------------------------------------------------------------ claims

LastSent(log) == log[Len(log)]

\* C1: a Discord event whose webhook id is in our_webhook_ids sends no Matrix
\* message and changes no store.
C1_OwnedWebhookSuppressed ==
    [][(/\ inbound'.source = "discord"
        /\ IsSome(inbound'.webhook_id)
        /\ Unwrap(inbound'.webhook_id) \in our_webhook_ids)
       => (matrix_sent' = matrix_sent /\ UNCHANGED stores)]_vars

\* C2: once an event with a (source, event_id) was handled successfully,
\* delivering it again invokes no handler, sends nothing and changes no store.
C2_ReplayIsNoOp ==
    [][HandledKey(inbound') \in handled_ok
       => (/\ outcome'.handler = "none"
           /\ matrix_sent' = matrix_sent
           /\ discord_sent' = discord_sent
           /\ redactions' = redactions
           /\ UNCHANGED stores)]_vars

\* C3: an event of either side whose origin timestamp is more than
\* AGE_LIMIT_MS older than the clock reaches no handler and changes no store.
C3_AgeCutoff ==
    [][(/\ inbound'.source \in {"discord", "matrix"}
        /\ IsSome(inbound'.ts)
        /\ inbound'.now - Unwrap(inbound'.ts) > AGE_LIMIT_MS)
       => (outcome'.handler = "none" /\ UNCHANGED stores)]_vars

\* C4: when a handler returns after a send that succeeded for an event with a
\* source id, a MessageMapping links the source id and the id returned.
C4_MappingAfterSend ==
    [][(/\ inbound'.source \in {"discord", "matrix"}
        /\ outcome'.result = "ok"
        /\ IsSome(outcome'.sent)
        /\ IsSome(outcome'.source_id))
       => \E m \in message_mappings' :
             {m.discord_message_id, m.matrix_event_id}
                = {Unwrap(outcome'.source_id), Unwrap(outcome'.sent)}]_vars

\* C5: the Matrix message emitted for a Discord message of user U is sent as
\* the ghost user of U, into the room mapped to the channel.
C5_SentAsGhost ==
    [][(inbound'.source = "discord" /\ Len(matrix_sent') > Len(matrix_sent))
       => (/\ LastSent(matrix_sent').sender = GhostUserId(inbound'.sender)
           /\ \E m \in room_mappings :
                 /\ m.discord_channel_id = inbound'.place
                 /\ m.matrix_room_id = LastSent(matrix_sent').room_id)]_vars

\* C6: a Discord message that replies to a message without a MessageMapping is
\* handed to the Matrix sender with reply_to = None, and the handler returns Ok.
C6_UnmappedReplyDropped ==
    [][(/\ inbound'.source = "discord"
        /\ inbound'.kind = "message"
        /\ IsSome(inbound'.reply_to)
        /\ ~IsSome(GetByDiscordMessageId(Unwrap(inbound'.reply_to)))
        /\ Len(matrix_sent') > Len(matrix_sent))
       => (LastSent(matrix_sent').reply_to = None /\ outcome'.result = "ok")]_vars

\* C7: apply_message_relation_mappings is the identity when both mappings are
\* None; a mapping that is present sets its own field to its matrix_event_id;
\* every other field stays.
C7_RelationMappings ==
    rel.applied =>
        /\ rel.result.body = rel.outbound.body
        /\ rel.result.attachments = rel.outbound.attachments
        /\ rel.result.reply_to =
              IF IsSome(rel.reply_mapping)
              THEN Some(Unwrap(rel.reply_mapping).matrix_event_id)
              ELSE rel.outbound.reply_to
        /\ rel.result.edit_of =
              IF IsSome(rel.edit_mapping)
              THEN Some(Unwrap(rel.edit_mapping).matrix_event_id)
              ELSE rel.outbound.edit_of
        /\ (~IsSome(rel.reply_mapping) /\ ~IsSome(rel.edit_mapping))
              => rel.result = rel.outbound

C7_Witness ==
    /\ rel.applied
    /\ IsSome(rel.edit_mapping)
    /\ ~IsSome(rel.reply_mapping)
    /\ IsSome(rel.outbound.reply_to)
    /\ rel.result.edit_of = Some("$e2")

PendingAsks(channel) ==
    {f \in FlowIds : /\ flows[f].pc = "waiting"
                     /\ flows[f].channel = channel
                     /\ flows[f].answer = "none"}

\* C8: a channel has at most one Pending request; ask_bridge_permission for a
\* channel whose request is Pending fails and leaves that request Pending.
C8_OnePendingPerChannel ==
    [][/\ \A c \in Channels : Cardinality(PendingAsks(c))' <= 1
       /\ outcome'.result = "waiting"
             => approvals[inbound'.content[4]].status # "Pending"
       /\ outcome'.answer = "Error"
             => (/\ approvals[inbound'.content[4]].status = "Pending"
                 /\ approvals' = approvals
                 /\ flows' = flows)]_vars

C8_Witness ==
    /\ outcome.answer = "Error"
    /\ approvals[inbound.content[4]].status = "Pending"
    /\ Cardinality(PendingAsks(inbound.content[4])) = 1

\* C9: mark_approval returns Applied exactly when the channel's request is
\* Pending, and then makes it Approved or Declined; otherwise it returns
\* Expired and changes nothing.
C9_MarkApproval ==
    [][outcome'.mark # "none"
       => LET c == inbound'.place
              allow == inbound'.content[2] = "approve"
          IN /\ outcome'.mark \in {"Applied", "Expired"}
             /\ outcome'.mark = "Applied" <=> approvals[c].status = "Pending"
             /\ outcome'.mark = "Applied"
                   => approvals' = [approvals EXCEPT ![c].status =
                                       IF allow THEN "Approved" ELSE "Declined"]
             /\ outcome'.mark = "Expired"
                   => (approvals' = approvals /\ flows' = flows)]_vars

C9_Witness ==
    /\ outcome.mark = "Expired"
    /\ approvals[inbound.place].status = "Expired"

\* C10: the bridge flow creates a RoomMapping only when ask_bridge_permission
\* resolved Approved; on TimedOut or Declined it creates none and sends the
\* timeout or the decline notice to the requesting room.
C10_BridgeOnlyAfterApproval ==
    [][/\ (inbound'.source = "matrix" /\ ~(room_mappings' \subseteq room_mappings))
             => outcome'.answer = "Approved"
       /\ outcome'.answer = "TimedOut"
             => (/\ room_mappings' = room_mappings
                 /\ notices' = <<Notice(inbound'.place, TimedOutText)>>)
       /\ outcome'.answer = "Declined"
             => (/\ room_mappings' = room_mappings
                 /\ notices' = <<Notice(inbound'.place, DeclinedBridgeText)>>)]_vars

C10_Witness ==
    /\ outcome.answer = "TimedOut"
    /\ notices = <<Notice(inbound.place, TimedOutText)>>
    /\ room_mappings = {}


\* C11: with room_count = N >= 0 and at least N RoomMappings stored, the
\* bridge command of a permitted requestor is answered with the room-limit
\* text alone, asks no permission and creates no mapping; below the limit,
\* or with a negative room_count, the command is not answered with it.
C11_RoomLimit ==
    [][(/\ inbound'.source = "matrix"
        /\ outcome'.handler = "handle_matrix_message"
        /\ Len(inbound'.content) = 4
        /\ inbound'.content[2] = "bridge")
       => IF room_count >= 0 /\ Cardinality(room_mappings) >= room_count
          THEN /\ notices' = <<Notice(inbound'.place, RoomLimitText(room_count))>>
               /\ approvals' = approvals
               /\ flows' = flows
               /\ room_mappings' = room_mappings
          ELSE \A i \in DOMAIN notices' :
                  notices'[i].content # RoomLimitText(room_count)]_vars

C11_Witness ==
    /\ room_count = 1
    /\ Cardinality(room_mappings) = 1
    /\ outcome.handler = "handle_matrix_message"
    /\ notices = <<Notice(inbound.place, RoomLimitText(1))>>

\* C12: the store holds at most one RoomMapping per matrix_room_id and at
\* most one per discord_channel_id.
C12_RoomMappingsUnique ==
    \A x \in room_mappings, y \in room_mappings :
        (x.matrix_room_id = y.matrix_room_id \/ x.discord_channel_id = y.discord_channel_id)
           => x = y

C12_Witness ==
    /\ Cardinality(room_mappings) = 1
    /\ outcome.handler = "request_bridge_matrix_room"
    /\ outcome.answer = "Approved"
    /\ outcome.result = "err"

\* C13: POST /bridges answers 201 and inserts the mapping exactly when neither
\* side was bridged when the answer is given; otherwise it answers 409 and
\* leaves the store as it was.
C13_CreateBridgeConflict ==
    [][(outcome'.handler = "create_bridge" /\ inbound'.kind = "create_bridge")
       => LET r == inbound'.place
              c == inbound'.content[1]
              free == ~IsSome(GetRoomByMatrixRoom(r)) /\ ~IsSome(GetRoomByDiscordChannel(c))
          IN IF free
             THEN /\ outcome'.result = "201"
                  /\ \E m \in room_mappings' \ room_mappings :
                        m.matrix_room_id = r /\ m.discord_channel_id = c
             ELSE /\ outcome'.result = "409"
                  /\ room_mappings' = room_mappings]_vars

\* C14: upserts of one discord_message_id that run concurrently all succeed,
\* and after each of them the store holds exactly one row of that id, with
\* the matrix_room_id and matrix_event_id that upsert wrote.
C14_ConcurrentUpsert ==
    [][outcome'.handler = "upsert_message_mapping"
       => /\ outcome'.result = "ok"
          /\ {x \in message_mappings' : x.discord_message_id = Unwrap(inbound'.event_id)}
               = {[discord_message_id |-> Unwrap(inbound'.event_id),
                   matrix_room_id |-> inbound'.place,
                   matrix_event_id |-> inbound'.content[1]]}]_vars

\* C15: with calls made one at a time, a get that follows an upsert of the
\* same discord_message_id, also across a reopening of the database, returns
\* the matrix_event_id that upsert wrote; an upsert leaves exactly one row of
\* its id and the rows of other ids alone; a get that follows a delete of the
\* same id returns None.
C15_StoreRoundtrip ==
    [][/\ (inbound'.kind = "upsert_message_mapping")
            => LET id == Unwrap(inbound'.event_id)
               IN /\ Cardinality({x \in message_mappings' : x.discord_message_id = id}) = 1
                  /\ {x \in message_mappings' : x.discord_message_id # id}
                       = {x \in message_mappings : x.discord_message_id # id}
       /\ (inbound'.kind = "get_by_discord_message_id"
           /\ inbound.kind = "upsert_message_mapping"
           /\ inbound'.event_id = inbound.event_id)
            => outcome'.sent = Some(inbound.content[1])
       /\ (inbound'.kind = "get_by_discord_message_id"
           /\ inbound.kind = "delete_by_discord_message_id"
           /\ inbound'.event_id = inbound.event_id)
            => outcome'.sent = None]_vars

\* A get after an overwriting upsert and a reopening returned the event id.
C15_Witness ==
    /\ managers = 2
    /\ outcome.handler = "get_by_discord_message_id"
    /\ outcome.sent = Some("$e2")
    /\ Cardinality(message_mappings) = 1

\* C16: an unbridge, by the Matrix command, the Discord command or the admin
\* DELETE, removes the RoomMapping of that room or channel and nothing else:
\* the other RoomMappings stay and message_mappings is unchanged.
C16_UnbridgeKeepsMessages ==
    [][/\ (inbound'.source = "matrix" /\ inbound'.content = UnbridgeBody
           /\ outcome'.handler = "handle_matrix_message")
            => /\ message_mappings' = message_mappings
               /\ room_mappings' =
                    {m \in room_mappings : m.matrix_room_id # inbound'.place}
       /\ (inbound'.source = "discord" /\ inbound'.content = DiscordUnbridgeBody
           /\ outcome'.handler = "handle_discord_message_with_context")
            => /\ message_mappings' = message_mappings
               /\ room_mappings' =
                    {m \in room_mappings : m.discord_channel_id # inbound'.place}
       /\ (inbound'.kind = "delete_bridge")
            => /\ message_mappings' = message_mappings
               /\ room_mappings' \subseteq room_mappings
               /\ Cardinality(room_mappings \ room_mappings') <= 1]_vars

\* A Matrix unbridge took one of two RoomMappings away and left the
\* MessageMapping of a forwarded message behind.
C16_Witness ==
    /\ inbound.source = "matrix"
    /\ inbound.content = UnbridgeBody
    /\ notices = <<Notice(inbound.place, UnbridgedText)>>
    /\ Cardinality(room_mappings) = 1
    /\ \E x \in message_mappings : x.matrix_room_id = inbound.place

\* C17: a bulk delete invokes the delete handler once for each distinct id of
\* the event, in the order of the ids' first occurrences.
C17_BulkDeleteOrder ==
    [][inbound'.kind = "message_delete_bulk"
       => LET ids == inbound'.content
              calls == outcome'.calls
              First(x) == CHOOSE k \in DOMAIN ids :
                              ids[k] = x /\ \A l \in 1..(k - 1) : ids[l] # x
          IN /\ {calls[i].id : i \in DOMAIN calls} = {ids[k] : k \in DOMAIN ids}
             /\ \A i, j \in DOMAIN calls :
                   i < j => /\ calls[i].id # calls[j].id
                            /\ First(calls[i].id) < First(calls[j].id)]_vars

\* The ids m1, m2, m1, m3, m2 were handled as m1, m2, m3.
C17_Witness ==
    /\ inbound.kind = "message_delete_bulk"
    /\ inbound.content = <<"m1", "m2", "m1", "m3", "m2">>
    /\ Len(outcome.calls) = 3
    /\ outcome.calls[1].id = "m1"
    /\ outcome.calls[2].id = "m2"
    /\ outcome.calls[3].id = "m3"

\* C18: at every moment at most one send is in flight on each side, Discord
\* and Matrix.
C18_OneSendInFlight ==
    \A side \in {"discord", "matrix"} :
        Cardinality({t \in SendTasks : in_flight[t] = [side |-> side, pc |-> "sending"]}) <= 1

\* C19: the callbacks of the Discord gateway run in delivery order: when the
\* delete of a message is handled, no callback for the creation of that
\* message is still waiting to send it and to write its MessageMapping.
C19_CreateBeforeDelete ==
    [][(inbound'.source = "discord" /\ inbound'.kind = "message_delete"
        /\ outcome'.handler = "handle_discord_message_delete")
       => \A t \in CreateTasks :
             ~(creating[t].pc = "sending" /\ Some(creating[t].id) = inbound'.event_id)]_vars

\* C20: a handler that fails on one event does not stop the events after it.
\* In a transaction the loop moves past an event whose handler returned an
\* error, and on_transaction returns Ok after a turn for every event; in a
\* bulk delete the handler is invoked for every id, whichever of them failed.
C20_FailuresDoNotStop ==
    /\ txn.returned \in {"none", "Ok"}
    /\ txn.returned = "Ok" => Len(txn.results) = Len(txn.events)
    /\ \A i \in DOMAIN txn.results : txn.results[i] = "err" => txn.pos > i
    /\ inbound.kind = "message_delete_bulk"
         => \A k \in DOMAIN inbound.content :
               \E i \in DOMAIN outcome.calls : outcome.calls[i].id = inbound.content[k]

\* A transaction of two events returned Ok after the handler of the first
\* failed and the second was forwarded.
C20_Witness ==
    /\ txn.returned = "Ok"
    /\ Len(txn.events) = 2
    /\ txn.results = <<"err", "ok">>

\* C21: the wait before the k-th retry of DiscordClient::start is
\* min(2 * 2^(k-1), 300) seconds, it never exceeds 300 and never decreases,
\* and start has returned only with the client logged in.
C21_LoginBackoff ==
    /\ lifecycle.retries >= 1
         => lifecycle.slept = Min(2 * 2^(lifecycle.retries - 1), 300)
    /\ lifecycle.slept <= 300
    /\ lifecycle.slept <= lifecycle.retry_seconds
    /\ lifecycle.pc = "running" => is_logged_in

\* start returned after ten failed logins, the last wait being the cap.
C21_Witness ==
    /\ lifecycle.pc = "running"
    /\ lifecycle.retries = 10
    /\ lifecycle.slept = 300

\* C27: a send in flight when the process shuts down runs to completion: the
\* callback that waits for the homeserver goes on to write its
\* MessageMapping and is not dropped.
C27_InFlightSendFinishes ==
    [][\A t \in CreateTasks :
          creating[t].pc = "sending" => creating'[t].pc \in {"sending", "idle"}]_vars

\* C22: presence enqueue coalesces. The queue never holds two entries of one
\* user_id; after an update of a user who is not a bot the one entry of that
\* user carries the state and activities of that update, and every entry that
\* was queued keeps its position, the others their content.
C22_PresenceCoalescing ==
    [][LET q == presence_queue'
           u == inbound'.sender
       IN /\ \A i, j \in DOMAIN q : q[i].user_id = q[j].user_id => i = j
          /\ (inbound'.kind = "presence_update" /\ ~inbound'.bot) =>
                 /\ Cardinality({i \in DOMAIN q : q[i].user_id = u}) = 1
                 /\ \A i \in DOMAIN q :
                        q[i].user_id = u =>
                            /\ q[i].state = PresenceState(inbound'.place)
                            /\ q[i].activities = inbound'.content
                 /\ \A i \in DOMAIN presence_queue :
                        /\ q[i].user_id = presence_queue[i].user_id
                        /\ presence_queue[i].user_id # u => q[i] = presence_queue[i]]_vars

\* The update of u1 arrived after u2 was queued behind u1, and replaced u1's entry.
C22_Witness ==
    /\ inbound.kind = "presence_update"
    /\ inbound.sender = <<"u1">>
    /\ ~inbound.bot
    /\ Len(presence_queue) = 2
    /\ presence_queue[1].user_id = <<"u1">>
    /\ presence_queue[1].state = "Dnd"
    /\ presence_queue[2].user_id = <<"u2">>

\* C23: registering a ghost that exists is a no-op. A step of typing handling
\* or of the presence drain leaves the display name of every ghost that was
\* already registered as it was.
C23_RegistrationIdempotent ==
    [][inbound'.kind \in {"typing_start", "presence"} =>
           \A u \in DiscordUsers : IsSome(ghosts[u]) => ghosts'[u] = ghosts[u]]_vars

C24_WireRoundTrip ==
    wire.pc = "parsed" =>
        /\ Unwrap(wire.parsed).body = wire.outbound.body
        /\ Unwrap(wire.parsed).reply_to = wire.outbound.reply_to
        /\ Unwrap(wire.parsed).edit_of = wire.outbound.edit_of

\* C25: the reply_to and edit_of of a Discord send made for a Matrix message
\* are each absent or the discord_message_id of the MessageMapping of the
\* Matrix event the message relates to; a Matrix event id is not among them.
C25_RelationsAreDiscordIds ==
    [][(inbound'.source = "matrix" /\ Len(discord_sent') > Len(discord_sent)) =>
           LET sent == LastSent(discord_sent')
               linked(event_id) ==
                   IF IsSome(event_id)
                   THEN {Some(m.discord_message_id) :
                            m \in {l \in message_mappings :
                                      l.matrix_event_id = Unwrap(event_id)}}
                   ELSE {}
           IN /\ sent.reply_to \in {None} \cup linked(inbound'.reply_to)
              /\ sent.edit_of \in {None} \cup linked(inbound'.edit_of)]_vars

\* C26: a Matrix user's message forwarded to a bridged channel goes out
\* through the channel's webhook when the channel has one, and as the bot
\* otherwise.
C26_ForwardedViaWebhook ==
    [][(/\ inbound'.source = "matrix"
        /\ inbound'.kind = "m.room.message"
        /\ Len(discord_sent') > Len(discord_sent)) =>
           LET sent == LastSent(discord_sent')
               webhook == webhook_cache[sent.channel_id]
           IN sent.via = IF IsSome(webhook) THEN Unwrap(webhook) ELSE "direct"]_vars

C31_SendsReturn ==
    \A t \in SendTasks :
        (/\ in_flight[t].side = "discord"
         /\ in_flight[t].pc # "idle"
         /\ Len(discord_sent) < MaxDiscordSends)
            ~> (in_flight[t].pc = "idle" /\ ~send_lock)

\* C32: the MessageMapping of a Discord message keeps the Matrix event the
\* message was first bridged as: handling an edit leaves the matrix_event_id
\* of every mapping that exists as it is, so that later edits replace, and a
\* later delete redacts, that first event.
C32_MappingKeepsFirstEvent ==
    [][(inbound'.source = "discord" /\ inbound'.kind = "message_update") =>
           \A m \in message_mappings :
               \E n \in message_mappings' :
                   /\ n.discord_message_id = m.discord_message_id
                   /\ n.matrix_event_id = m.matrix_event_id]_vars

\* C34: with room_count = N >= 0 the store never holds more than N
\* RoomMappings, whatever the bridge flows and the admin requests do.
C34_RoomCountBound ==
    room_count >= 0 => Cardinality(room_mappings) <= room_count

\* C33: when the gateway task ends after a successful login, the client logs
\* in again: is_logged_in does not stay true for ever with no gateway task
\* alive (unless the process is stopped).
C33_ReconnectAfterExit ==
    (lifecycle.pc = "gateway_exited" /\ is_logged_in)
        ~> (lifecycle.pc \in {"running", "stopped"} \/ ~is_logged_in)

\* C36: while the approval asked for by a bridge command is Pending, the
\* events that follow the command in its transaction are dispatched: the
\* loop of on_transaction gets past the command before the approval is
\* resolved or times out.
C36_DispatchWhilePending ==
    \A k \in 1..MaxTxnLen :
        (/\ txn.returned = "none"
         /\ txn.pos = k
         /\ k < Len(txn.events)
         /\ Len(txn.results) = k
         /\ txn.results[k] = "waiting"
         /\ approvals["c1"].status = "Pending")
            ~> (txn.pos > k /\ approvals["c1"].status = "Pending")

\* C37: however the concurrent sends to a channel interleave, at most one
\* webhook is created for it, and once the cache holds the channel's webhook
\* no call fetches or creates one.
C37_OneWebhookPerChannel ==
    /\ \A c \in Channels : webhooks.remote[c].created <= 1
    /\ \A t \in WebhookTasks :
          webhooks.calls[t].pc \in {"fetch", "create"} =>
              ~IsSome(webhook_cache[webhooks.calls[t].channel])

\* An earlier call created the channel's webhook and sent through it, and a
\* later call for the channel has come back from the cache with it.
C37_Witness ==
    /\ webhooks.remote["c1"].created = 1
    /\ IsSome(webhook_cache["c1"])
    /\ \E r \in DOMAIN discord_sent : discord_sent[r].via = WebhookOf("c1")
    /\ \E t \in WebhookTasks :
          webhooks.calls[t] = [pc |-> "send_via_webhook", channel |-> "c1"]

\* C38: every webhook id in the per-channel cache is in the owned-webhook
\* set, and a message is sent through a webhook only after its id is there.
C38_CachedWebhooksOwned ==
    /\ \A c \in Channels :
          IsSome(webhook_cache[c]) => Unwrap(webhook_cache[c]) \in our_webhook_ids
    /\ \A t \in WebhookTasks :
          webhooks.calls[t].pc = "send_via_webhook" =>
              WebhookOf(webhooks.calls[t].channel) \in our_webhook_ids
    /\ \A r \in DOMAIN discord_sent :
          discord_sent[r].via # "direct" => discord_sent[r].via \in our_webhook_ids

\* A webhook was found or created, recorded, and a message went through it.
C38_Witness ==
    /\ IsSome(webhook_cache["c2"])
    /\ \E r \in DOMAIN discord_sent :
          discord_sent[r].via = WebhookOf("c2") /\ discord_sent[r].channel_id = "c2"

\* C40: with disable_deletion_forwarding set, the delete of a single Discord
\* message issues no Matrix redaction and removes no MessageMapping.
C40_DeletionForwardingDisabled ==
    [][(/\ disable_deletion_forwarding
        /\ inbound'.source = "discord"
        /\ inbound'.kind = "message_delete") =>
           /\ redactions' = redactions
           /\ message_mappings' = message_mappings]_vars

====
